---- MODULE Spec2Model ----
(***************************************************************************)
(* A model of the agentic execution engine of raydoomed/nephesh:           *)
(*   - the Memory store with compaction        (src/app/schema.py)         *)
(*   - the think/act run loop and its states   (src/app/agent/base.py,     *)
(*                                              src/app/agent/toolcall.py) *)
(*   - the plan scheduler                      (src/app/flow/planning.py)  *)
(* Each subsystem has its own specification over the shared variables:     *)
(*   SpecMem   Memory.add_message / add_messages / compress_memory         *)
(*   SpecMat   Memory.get_memory_with_summaries and think's filter         *)
(*   SpecAgent BaseAgent.run / ToolCallAgent.run                           *)
(*   SpecFlow  PlanningFlow.execute  (FairFlow adds the scheduling         *)
(*             fairness of the single asyncio task that runs it)           *)
(***************************************************************************)
EXTENDS Integers, Sequences, FiniteSets, TLC

VARIABLES
    memory,        \* Memory: [messages, summaries, last_compression_size]
    nextId,        \* ghost: identity given to the next appended message
    capDropped,    \* ghost: ids removed by the max_messages cap
    hist,          \* ghost: the last Memory operation and the store before it
    compressCalls, \* bound bookkeeping: direct compress_memory calls made
    appends,       \* bound bookkeeping: add_message calls made after the notes
    materialized,  \* result of get_memory_with_summaries / think's list
    matPc,         \* position of the materialisation scenario
    state,             \* BaseAgent.state
    current_step,      \* BaseAgent.current_step
    continuation_mode, \* Manus.continuation_mode (absent on other agents: FALSE)
    previous_state,    \* state_context's local previous_state
    runPc,             \* position of the run: none, loop, unwinding, returned, raised
    call,              \* ghost: outcome of the last invocation of run
    calls,             \* bound bookkeeping: invocations of run
    iterations,        \* bound bookkeeping: think/act iterations started
    terminal,          \* ghost: a special tool finished the current run
    runIterations,     \* ghost: think/act iterations started by the current run
    report,            \* ghost: the notices in the results run returns
    cutShort,          \* ghost: the current run was ended by a token-limit failure or from outside
    lastThink,         \* ghost: the model calls and compactions of the last think
    flowPc,                    \* position of PlanningFlow.execute
    has_planned_step,          \* hasattr(executor, "execute_planned_step")
    step_statuses,             \* planning_tool.plans[active_plan_id]["step_statuses"]
    step_execution_count,      \* execute's step_execution_count
    step_intermediate_results, \* PlanningFlow.step_intermediate_results: <<step, result>>
    current_step_index,        \* PlanningFlow.current_step_index
    flowResult,                \* what execute returned
    flowReport,                \* execute's result string: the <<step, text>> lines in it
    forcedSteps,               \* ghost: <<step, cause>> of the steps completed by force
    step_prompt,               \* the prompt _create_step_prompt built for the pass
    stepTerminal,              \* ghost: a terminal tool was invoked in the pass's run
    planOutcome,               \* ghost: what the model answered to the plan request
    step_result,               \* execute's step_result: the result of the last pass
    subtask_evaluation_enabled, \* Manus: the quality gate wraps execute_planned_step
    subtask_max_retries,        \* Manus.subtask_max_retries
    enable_auto_improvement,    \* Manus: an optimizer is there and may be used
    gatePc,                    \* position of execute_planned_step: idle, improve, retry, done
    gateRuns,                  \* ghost: runs of the step loop made by the pass
    gateScores,                \* ghost: evaluation.score of each run of the pass
    retry_count,               \* execute_planned_step's retry_count
    improvement_plan,          \* execute_planned_step's improvement_plan is non-empty
    current_result,            \* execute_planned_step's current_result
    response,                  \* the model's answer to the evaluation prompt
    evaluation,                \* the EvaluationResult evaluate_task returned
    evaluation_history,        \* SelfEvaluator.evaluation_history
    evalPc,                    \* position of evaluate_task: asked, returned, raised
    tool_choices,              \* ToolCallAgent.tool_choices
    tool_calls,                \* ToolCallAgent.tool_calls
    answer,                    \* the model's answer think works on
    should_act,                \* the value think returned
    invoked,                   \* ids of the calls execute_tool was called for, in order
    completed,                 \* ids of the calls execute_tool has returned for
    recorded,                  \* the messages act added to memory, in order
    tool_usage_history,        \* ToolCallAgent.tool_usage_history
    actPc,                     \* position of step: idle, act, loop, invoking, ...
    chatPc,                    \* the web layer's chat request: none, failed, resumed, started
    locks,                     \* BrowserUseTool.locks: the operation holding each lock
    opPc,                      \* position of each operation of the browser tool
    opAction,                  \* the action each operation was called for
    opExit,                    \* ghost: how each operation ended
    opHeld,                    \* ghost: the lock each operation held when it ended
    sessions,                  \* web/app.py sessions: each session's agent
    sandbox,                   \* SANDBOX_CLIENT: the sessions whose resources it holds
    actor,                     \* ghost: the session whose operation came last
    operation,                 \* ghost: that operation
    next_step_prompt,          \* BaseAgent.next_step_prompt, directives in front
    stuckPc,                   \* position of run after a step: acting, checked
    planPasses,                \* bound bookkeeping: calls of execute_planned_step
    stepRuns,                  \* ghost: runs accepted since execute_planned_step began
    browser_open,              \* the agent's browser tool holds an open browser
    tool_usage_stats,          \* Manus.tool_usage_stats: tool uses counted
    finalizeStack,             \* activations of _finalize_plan, outermost first
    plansCreated,              \* ghost: plans created since _finalize_plan began
    summaryRun,                \* iterations of the step loop given the summary prompt
    final_message              \* what the outermost _finalize_plan returned

memVars == <<memory, nextId, capDropped, hist, compressCalls, appends>>
matVars == <<materialized, matPc>>
agentVars == <<state, current_step, continuation_mode, previous_state, runPc,
               call, calls, iterations, terminal, runIterations, report, cutShort,
               lastThink>>
gateConfig == <<subtask_evaluation_enabled, subtask_max_retries,
                enable_auto_improvement>>
gateLocals == <<gatePc, gateRuns, gateScores, retry_count, improvement_plan,
                current_result>>
gateVars == <<gateConfig, gateLocals>>
evalVars == <<response, evaluation, evaluation_history, evalPc>>
actVars == <<tool_choices, tool_calls, answer, should_act, invoked, completed,
             recorded, tool_usage_history, actPc, chatPc>>
browserVars == <<locks, opPc, opAction, opExit, opHeld>>
sessionVars == <<sessions, sandbox, actor, operation>>
stuckVars == <<next_step_prompt, stuckPc>>
passVars == <<planPasses, stepRuns>>
toolVars == <<browser_open, tool_usage_stats>>
finalizeVars == <<finalizeStack, plansCreated, summaryRun, final_message>>
lateVars == <<passVars, toolVars, finalizeVars>>
restVars == <<evalVars, actVars, browserVars, sessionVars, stuckVars, lateVars>>
flowVars == <<flowPc, has_planned_step, step_statuses, step_execution_count,
              step_intermediate_results, current_step_index, flowResult,
              flowReport, forcedSteps, step_prompt, stepTerminal, planOutcome,
              step_result, gateVars>>
vars == <<memory, nextId, capDropped, hist, compressCalls, appends,
          materialized, matPc,
          state, current_step, continuation_mode, previous_state, runPc,
          call, calls, iterations, terminal, runIterations, report, cutShort, lastThink,
          flowPc, has_planned_step, step_statuses, step_execution_count,
          step_intermediate_results, current_step_index, flowResult,
          flowReport, forcedSteps, step_prompt, stepTerminal, planOutcome,
          step_result,
          subtask_evaluation_enabled, subtask_max_retries, enable_auto_improvement,
          gatePc, gateRuns, gateScores, retry_count, improvement_plan,
          current_result,
          response, evaluation, evaluation_history, evalPc,
          tool_choices, tool_calls, answer, should_act, invoked, completed,
          recorded, tool_usage_history, actPc, chatPc,
          locks, opPc, opAction, opExit, opHeld,
          sessions, sandbox, actor, operation,
          next_step_prompt, stuckPc,
          planPasses, stepRuns,
          browser_open, tool_usage_stats,
          finalizeStack, plansCreated, summaryRun, final_message>>

(***************************************************************************)
(* Program constants (src/app/schema.py, class Memory).                    *)
(***************************************************************************)
max_messages == 100
compression_threshold == 20
compression_ratio == 50          \* 0.5, in percent
emergency_ratio == 30            \* 0.3, ToolCallAgent.think
MinKeep == 10
auto_compress == TRUE
compress_system_messages == FALSE

(***************************************************************************)
(* Bounds of the model.                                                    *)
(***************************************************************************)
MaxAppends == 24       \* add_message / add_messages calls in one behaviour
SysWindow == 2         \* the first SysWindow of them may append system messages
BatchWindow == 1       \* the first BatchWindow of them may be add_messages
BatchLen == 2          \* length of the batch given to add_messages
MaxCompressCalls == 2  \* direct compress_memory calls in one behaviour
PriorMessages == 18    \* messages of a conversation held before the first run
MaxCalls == 2          \* invocations of run
MaxIterations == 6     \* think/act iterations over all runs
GatePlanSteps == 2     \* steps of a plan executed under the quality gate
MaxRetries == 2        \* largest subtask_max_retries configured
MaxPlanSteps == 3      \* steps of a created plan
MaxMatLen == 4         \* live messages of a store given to materialisation
FewNotes == 9          \* system notes a session has gathered before: its
ManyNotes == 90        \*   quality and continuation notes, never compacted

NoId == 0

Max2(a, b) == IF a >= b THEN a ELSE b
Min2(a, b) == IF a <= b THEN a ELSE b

\* Python slices on a list s: s[:-k] and s[-k:] for k >= 1.
DropLast(s, k) == IF k >= Len(s) THEN << >> ELSE SubSeq(s, 1, Len(s) - k)
TakeLast(s, k) == IF k >= Len(s) THEN s ELSE SubSeq(s, Len(s) - k + 1, Len(s))

IsSystem(m) == m.role = "system"
NotSystem(m) == m.role # "system"

Ids(s) == {s[i].id : i \in 1..Len(s)}

\* Message as the memory operations see it: identity, role, tool linkage.
Msg(id, role) ==
    [id |-> id, role |-> role, content |-> <<"text">>, name |-> "",
     tool_calls |-> << >>, tool_call_id |-> NoId]

EmptyMemory == [messages |-> << >>, summaries |-> << >>, last_compression_size |-> 0]

\* keep_count = max(int(len * ratio), 10)
KeepCount(n, pct) == Max2((n * pct) \div 100, MinKeep)

\* Memory._generate_summary: the summary stands for the messages it was made of.
GenerateSummary(to_compress) == [i \in 1..Len(to_compress) |-> to_compress[i].id]

\* compress_memory as it would be if the system messages of the prefix were
\* not put back in front of the kept tail.
CompressMemoryLosesSystem(mem, pct) ==
    IF Len(mem.messages) <= compression_threshold THEN mem
    ELSE LET keep_count == KeepCount(Len(mem.messages), pct)
             prefix == DropLast(mem.messages, keep_count)
             to_compress == SelectSeq(prefix, NotSystem)
             kept == TakeLast(mem.messages, keep_count)
         IN IF to_compress = << >> THEN mem
            ELSE [messages |-> kept,
                  summaries |-> Append(mem.summaries,
                                   [start_idx |-> 0,
                                    end_idx |-> Len(to_compress) - 1,
                                    content |-> GenerateSummary(to_compress)]),
                  last_compression_size |-> Len(kept)]

\* compress_memory as it would be if the tail slice were one message too long.
CompressMemoryLongTail(mem, pct) ==
    IF Len(mem.messages) <= compression_threshold THEN mem
    ELSE LET keep_count == KeepCount(Len(mem.messages), pct)
             prefix == DropLast(mem.messages, keep_count)
             system_messages == SelectSeq(prefix, IsSystem)
             to_compress == SelectSeq(prefix, NotSystem)
             kept == system_messages \o TakeLast(mem.messages, keep_count + 1)
         IN IF to_compress = << >> THEN mem
            ELSE [messages |-> kept,
                  summaries |-> Append(mem.summaries,
                                   [start_idx |-> 0,
                                    end_idx |-> Len(to_compress) - 1,
                                    content |-> GenerateSummary(to_compress)]),
                  last_compression_size |-> Len(kept)]

\* compress_memory as it would be if its threshold test were strict.
CompressMemoryStrictThreshold(mem, pct) ==
    IF Len(mem.messages) < compression_threshold THEN mem
    ELSE LET keep_count == KeepCount(Len(mem.messages), pct)
             prefix == DropLast(mem.messages, keep_count)
             system_messages == SelectSeq(prefix, IsSystem)
             to_compress == SelectSeq(prefix, NotSystem)
             kept == system_messages \o TakeLast(mem.messages, keep_count)
         IN IF to_compress = << >> THEN mem
            ELSE [messages |-> kept,
                  summaries |-> Append(mem.summaries,
                                   [start_idx |-> 0,
                                    end_idx |-> Len(to_compress) - 1,
                                    content |-> GenerateSummary(to_compress)]),
                  last_compression_size |-> Len(kept)]

\* Memory.compress_memory with the ratio currently set on the store.
CompressMemory(mem, pct) ==
    IF Len(mem.messages) <= compression_threshold THEN mem
    ELSE LET keep_count == KeepCount(Len(mem.messages), pct)
             prefix == DropLast(mem.messages, keep_count)
             system_messages == IF ~compress_system_messages
                                THEN SelectSeq(prefix, IsSystem) ELSE << >>
             to_compress == IF ~compress_system_messages
                            THEN SelectSeq(prefix, NotSystem) ELSE prefix
             kept == system_messages \o TakeLast(mem.messages, keep_count)
         IN IF to_compress = << >> THEN mem
            ELSE [messages |-> kept,
                  summaries |-> Append(mem.summaries,
                                   [start_idx |-> 0,
                                    end_idx |-> Len(to_compress) - 1,
                                    content |-> GenerateSummary(to_compress)]),
                  last_compression_size |-> Len(kept)]

\* The automatic compaction test of add_message / add_messages.
AutoCompressDue(mem) ==
    /\ auto_compress
    /\ Len(mem.messages) > compression_threshold
    /\ Len(mem.messages) > mem.last_compression_size + compression_threshold \div 2

\* The cap of add_message / add_messages: messages = messages[-max_messages:].
CapMessages(mem) ==
    IF Len(mem.messages) > max_messages
    THEN [mem EXCEPT !.messages = TakeLast(mem.messages, max_messages)]
    ELSE mem

\* Memory.add_messages (add_message is the one-element case).
AddMessagesTo(mem, msgs) ==
    LET grown == [mem EXCEPT !.messages = mem.messages \o msgs]
        packed == IF AutoCompressDue(grown)
                  THEN CompressMemory(grown, compression_ratio) ELSE grown
    IN CapMessages(packed)

AddMessageTo(mem, msg) == AddMessagesTo(mem, <<msg>>)

\* Ids the cap removes from a store that add_message has grown and compacted.
CapRemoved(mem) == Ids(mem.messages) \ Ids(CapMessages(mem).messages)

\* The store of add_messages before its cap is applied.
Packed(mem, msgs) ==
    LET grown == [mem EXCEPT !.messages = mem.messages \o msgs]
    IN IF AutoCompressDue(grown) THEN CompressMemory(grown, compression_ratio) ELSE grown

\* n calls of update_memory("system", note) on a store, ids from `first` on.
RECURSIVE AddSystemNotes(_, _, _)
AddSystemNotes(mem, first, n) ==
    LET next == AddMessageTo(mem, Msg(first, "system"))
    IN IF n = 0 THEN mem
       ELSE IF Len(next.messages) = 0 THEN next
       ELSE AddSystemNotes(next, first + 1, n - 1)

\* Did the last Memory operation append a Summary?
JustCompacted == hist.compacted

\* System messages among the prefix messages[:-keep_count] of a store.
SystemInPrefix(mem, pct) ==
    LET prefix == DropLast(mem.messages, KeepCount(Len(mem.messages), pct))
    IN Cardinality({i \in 1..Len(prefix) : prefix[i].role = "system"})

\* The record of an operation that took the store from `memory` to `after`.
Hist(op, pct, after) ==
    [op |-> op, pct |-> pct,
     onCompacted |-> JustCompacted, priorPct |-> hist.pct,
     prior |-> Len(memory.messages),
     systemInPrefix |-> SystemInPrefix(memory, pct),
     compacted |-> Len(after.summaries) > Len(memory.summaries),
     changed |-> after # memory]

(***************************************************************************)
(* SpecMem: the Memory store under its own operations.                     *)
(***************************************************************************)
MemInit ==
    /\ memory = EmptyMemory
    /\ nextId = 1
    /\ capDropped = {}
    /\ hist = [op |-> "init", pct |-> compression_ratio, onCompacted |-> FALSE,
               priorPct |-> compression_ratio,
               prior |-> 0, systemInPrefix |-> 0, compacted |-> FALSE,
               changed |-> FALSE]
    /\ compressCalls = 0
    /\ appends = 0

MatIdle ==
    /\ materialized = << >>
    /\ matPc = "idle"

NoStep == 0    \* current_step_index is None

\* BaseAgent's field defaults; no run has been invoked.
AgentFresh ==
    /\ state = "IDLE"
    /\ current_step = 0
    /\ previous_state = "IDLE"
    /\ runPc = "none"
    /\ call = [outcome |-> "none", from |-> "IDLE"]
    /\ calls = 0
    /\ iterations = 0
    /\ terminal = FALSE
    /\ runIterations = 0
    /\ report = {}
    /\ cutShort = FALSE
    /\ lastThink = [token_fault |-> FALSE, asks |-> 0, compactions |-> 0,
                    retry_failed |-> FALSE]

\* The Manus agent as constructed (continuation_mode defaults to True).
AgentIdle == AgentFresh /\ continuation_mode = TRUE

\* Manus.subtask_quality_threshold
subtask_quality_threshold == 8

\* Manus.max_improvement_iterations
max_improvement_iterations == 1

\* step_intermediate_results.get(step_key, ""): no result is stored
NoResult == 0

\* No run of the pass has produced an output yet.
NoOutput == [run |-> 0, marker |-> FALSE]

\* execute_planned_step is not under way.
GateIdle ==
    /\ gatePc = "idle"
    /\ gateRuns = 0
    /\ gateScores = << >>
    /\ retry_count = 0
    /\ improvement_plan = FALSE
    /\ current_result = NoOutput

\* Manus as constructed, its sub-task evaluation switched off.
GateOff ==
    /\ subtask_evaluation_enabled = FALSE
    /\ subtask_max_retries = 0
    /\ enable_auto_improvement = TRUE

\* PlanningFlow's field defaults; execute has not been invoked.
FlowFresh ==
    /\ flowPc = "start"
    /\ step_statuses = << >>
    /\ step_execution_count = << >>
    /\ step_intermediate_results = {}
    /\ current_step_index = NoStep
    /\ flowResult = "none"
    /\ flowReport = {}
    /\ forcedSteps = {}
    /\ step_prompt = [step |-> NoStep, previous_result |-> NoResult]
    /\ stepTerminal = FALSE
    /\ planOutcome = "none"
    /\ step_result = "none"
    /\ GateIdle

\* A flow whose executor is Manus, which has execute_planned_step.
FlowIdle == FlowFresh /\ has_planned_step = TRUE /\ GateOff

\* No evaluation has been asked for: the answer and the result are placeholders.
NoResponse == [text |-> "none", top |-> "none", score_kind |-> "missing", score |-> 0,
               issues |-> << >>, fields_valid |-> TRUE]

NoEvaluation == [score |-> 0, issues |-> << >>, parse_error |-> FALSE]

\* SelfEvaluator as constructed: evaluation_history = [].
EvalIdle ==
    /\ response = NoResponse
    /\ evaluation = NoEvaluation
    /\ evaluation_history = << >>
    /\ evalPc = "idle"

\* Tool names: one in available_tools, one in special_tool_names (and
\* available), one that available_tools does not hold, and the tool that waits
\* for the user.
ToolNames == {"search", "terminate", "missing", "wait_for_user_input"}

\* llm.ask_tool has given no answer.
NoAnswer == [answered |-> FALSE, content |-> FALSE, tool_calls |-> << >>]

\* No think has been made.
ActIdle ==
    /\ tool_choices = "auto"
    /\ tool_calls = << >>
    /\ answer = NoAnswer
    /\ should_act = FALSE
    /\ invoked = << >>
    /\ completed = << >>
    /\ recorded = << >>
    /\ tool_usage_history = [n \in ToolNames |-> << >>]
    /\ actPc = "idle"
    /\ chatPc = "none"

\* The browser tool's operations under way at once.
MaxOps == 2

BrowserOps == 1..MaxOps

\* No operation holds the lock.
NoOp == 0

\* BrowserUseTool.locks
LockNames == {"browser_init", "navigation", "interaction", "extraction", "tab",
              "state", "cleanup"}

\* BrowserUseTool as constructed: every lock free, no operation under way.
BrowserIdle ==
    /\ locks = [l \in LockNames |-> NoOp]
    /\ opPc = [o \in BrowserOps |-> "idle"]
    /\ opAction = [o \in BrowserOps |-> "none"]
    /\ opExit = [o \in BrowserOps |-> "none"]
    /\ opHeld = [o \in BrowserOps |-> "none"]

\* The sessions of the web layer's registry.
Sessions == {"A", "B"}

\* A session's Manus as constructed: its own memory (default_factory), its own
\* tools (default_factory), no plan.
NewAgent == [state |-> "IDLE", messages |-> 0, plan |-> "none", browser |-> "closed"]

\* No session has an agent; the process-wide SANDBOX_CLIENT holds nothing.
SessionsIdle ==
    /\ sessions = [s \in Sessions |-> NewAgent]
    /\ sandbox = {}
    /\ actor = "none"
    /\ operation = "none"

\* BaseAgent as constructed: next_step_prompt without directive, no check made.
StuckIdle ==
    /\ next_step_prompt = <<"next step">>
    /\ stuckPc = "acting"

\* No execute_planned_step has been called.
PassIdle ==
    /\ planPasses = 0
    /\ stepRuns = 0

\* Manus as constructed: no browser started, tool_usage_stats = {}.
ToolsIdle ==
    /\ browser_open = FALSE
    /\ tool_usage_stats = 0

\* _finalize_plan has not been called.
FinalizeIdle ==
    /\ finalizeStack = << >>
    /\ plansCreated = 0
    /\ summaryRun = 0
    /\ final_message = "none"

LateIdle == PassIdle /\ ToolsIdle /\ FinalizeIdle

\* The subsystems beside memory, agent and flow, none of them in use.
RestIdle ==
    EvalIdle /\ ActIdle /\ BrowserIdle /\ SessionsIdle /\ StuckIdle /\ LateIdle

\* Memory, materialisation, agent and flow as constructed, none of them in use.
Quiescent == MemInit /\ MatIdle /\ AgentIdle /\ FlowIdle

\* The system notes a session has gathered (quality, warning and
\* continuation notes): n times update_memory("system", ...) on the fresh store.
MemSystemNotes(n) ==
    /\ nextId = 1
    /\ memory' = AddSystemNotes(memory, nextId, n)
    /\ nextId' = nextId + n
    /\ hist' = Hist("add_message", compression_ratio, memory')
    /\ UNCHANGED <<capDropped, compressCalls, appends>>

\* memory.add_message(Message(role=...)), as BaseAgent.update_memory calls it.
MemAddMessage(role) ==
    /\ appends < MaxAppends
    /\ role = "system" => appends < SysWindow
    /\ memory' = AddMessageTo(memory, Msg(nextId, role))
    /\ capDropped' = capDropped \cup CapRemoved(Packed(memory, <<Msg(nextId, role)>>))
    /\ nextId' = nextId + 1
    /\ appends' = appends + 1
    /\ hist' = Hist("add_message", compression_ratio, memory')
    /\ UNCHANGED compressCalls

\* memory.add_messages([user message] * BatchLen).
MemAddMessages ==
    /\ appends < BatchWindow
    /\ LET msgs == [i \in 1..BatchLen |-> Msg(nextId + i - 1, "user")]
       IN /\ memory' = AddMessagesTo(memory, msgs)
          /\ capDropped' = capDropped \cup CapRemoved(Packed(memory, msgs))
    /\ nextId' = nextId + BatchLen
    /\ appends' = appends + 1
    /\ hist' = Hist("add_messages", compression_ratio, memory')
    /\ UNCHANGED compressCalls

\* memory.compress_memory(), called directly (BaseAgent.run; think sets the
\* ratio to 0.3 around its emergency call).
MemCompress(pct) ==
    /\ compressCalls < MaxCompressCalls
    /\ memory' = CompressMemory(memory, pct)
    /\ compressCalls' = compressCalls + 1
    /\ hist' = Hist("compress_memory", pct, memory')
    /\ UNCHANGED <<nextId, capDropped, appends>>

MemNext ==
    \/ \E n \in {FewNotes, ManyNotes} : MemSystemNotes(n) /\ UNCHANGED <<matVars, restVars, agentVars, flowVars>>
    \/ \E role \in {"system", "user"} : MemAddMessage(role) /\ UNCHANGED <<matVars, restVars, agentVars, flowVars>>
    \/ MemAddMessages /\ UNCHANGED <<matVars, restVars, agentVars, flowVars>>
    \/ \E pct \in {compression_ratio, emergency_ratio} : MemCompress(pct) /\ UNCHANGED <<matVars, restVars, agentVars, flowVars>>

MemStart == MemInit /\ MatIdle /\ AgentIdle /\ FlowIdle /\ RestIdle

SpecMem == MemStart /\ [][MemNext]_vars

(***************************************************************************)
(* Claims about the Memory store (SpecMem).                                *)
(***************************************************************************)
Appended == 1..(nextId - 1)
LiveIds == Ids(memory.messages)
SummaryIds(i) == {memory.summaries[i].content[k] : k \in 1..Len(memory.summaries[i].content)}
SummariesOf(id) == {i \in 1..Len(memory.summaries) : id \in SummaryIds(i)}

\* C3 (as claimed): every message ever appended is still live or lies in a
\* Summary, and every compacted message lies in exactly one Summary.
C3_NoMessageLost ==
    \A id \in Appended :
        /\ id \in LiveIds \/ SummariesOf(id) # {}
        /\ Cardinality(SummariesOf(id)) <= 1

\* C3 (amended): every message ever appended is exactly one of: still live,
\* compacted into exactly one Summary, or cut off by the max_messages cap of
\* add_message / add_messages; compress_memory itself never loses a message.
C3_OnlyTheCapLoses ==
    \A id \in Appended :
        /\ Cardinality(SummariesOf(id)) <= 1
        /\ Cardinality({k \in {"live", "summary", "cap"} :
                \/ k = "live" /\ id \in LiveIds
                \/ k = "summary" /\ SummariesOf(id) # {}
                \/ k = "cap" /\ id \in capDropped}) = 1

\* A compaction has just put system messages of the prefix back and
\* summarised the rest.
C3_Witness ==
    /\ hist.compacted
    /\ hist.systemInPrefix > 0
    /\ Len(memory.summaries) >= 2

\* C4: a compress_memory call on a store above the threshold leaves at most
\* max(10, floor(priorCount * ratio)) messages plus the system messages it
\* retained from the compacted prefix.
C4_MemoryBound ==
    (hist.op = "compress_memory" /\ hist.prior > compression_threshold)
        => Len(memory.messages)
              <= Max2(10, (hist.prior * hist.pct) \div 100) + hist.systemInPrefix

\* A compaction above the threshold whose kept tail is floor(prior * ratio) > 10
\* and that retained system messages.
C4_Witness ==
    /\ hist.op = "compress_memory"
    /\ hist.prior > compression_threshold
    /\ hist.compacted
    /\ hist.systemInPrefix > 0
    /\ (hist.prior * hist.pct) \div 100 > 10

\* A compress_memory call made on a store that the operation before it has
\* just compacted, with the same ratio.
Recompaction ==
    /\ hist.op = "compress_memory"
    /\ hist.onCompacted
    /\ hist.pct = hist.priorPct

\* C6 (as claimed): compress_memory on a store that has just been compacted
\* changes nothing.
C6_Idempotent == Recompaction => ~hist.changed

\* C6 (amended): compress_memory on a store that has just been compacted
\* changes nothing when that store holds at most compression_threshold
\* messages; a store left above the threshold may be compacted again.
C6_IdempotentBelowThreshold ==
    (Recompaction /\ hist.prior <= compression_threshold) => ~hist.changed

\* A second call on a just-compacted store that sits exactly at the threshold.
C6_Witness ==
    /\ Recompaction
    /\ hist.prior = compression_threshold

\* C7 (as claimed): the summaries cover pairwise disjoint index ranges in
\* chronological order, and only messages no longer live.
C7_DisjointOrderedRanges ==
    /\ \A i, j \in 1..Len(memory.summaries) :
          i < j => memory.summaries[i].end_idx < memory.summaries[j].start_idx
    /\ \A i \in 1..Len(memory.summaries) : SummaryIds(i) \cap LiveIds = {}

(***************************************************************************)
(* Materialisation for the model: Memory.get_memory_with_summaries and the *)
(* second filter ToolCallAgent.think applies to it.                        *)
(***************************************************************************)
Range(f) == {f[i] : i \in DOMAIN f}

\* Message.system_message(summary_text) for one Summary record.
SummaryMessage(summary) ==
    [id |-> 0, role |-> "system", content |-> <<"summary">>, name |-> "",
     tool_calls |-> << >>, tool_call_id |-> NoId]

\* First pass: the ids of all tool calls of assistant messages.
ToolCallIdsOf(msgs) ==
    UNION {Range(msgs[i].tool_calls) :
              i \in {k \in 1..Len(msgs) : msgs[k].role = "assistant"}}

\* assistant_with_tool_calls[id]: the last assistant message proposing id.
AssistantWithToolCall(msgs, id) ==
    LET at == {i \in 1..Len(msgs) :
                  msgs[i].role = "assistant" /\ id \in Range(msgs[i].tool_calls)}
    IN msgs[CHOOSE i \in at : \A j \in at : j <= i]

\* A tool message left as it is (what a missing repair would do).
KeepOrphan(msg) == msg

\* Message.assistant_message("tool '<name>' result: <content>").
RewriteOrphan(msg) ==
    [id |-> 0, role |-> "assistant",
     content |-> <<"tool result", msg.name>> \o msg.content, name |-> "",
     tool_calls |-> << >>, tool_call_id |-> NoId]

\* Second pass of get_memory_with_summaries over messages[i..], result so far acc.
RECURSIVE PairMessages(_, _, _)
PairMessages(msgs, i, acc) ==
    IF i > Len(msgs) THEN acc
    ELSE LET msg == msgs[i]
             ids == ToolCallIdsOf(msgs)
         IN IF msg.role = "tool" /\ msg.tool_call_id # NoId
            THEN IF msg.tool_call_id \in ids
                 THEN LET assistant_msg == AssistantWithToolCall(msgs, msg.tool_call_id)
                          withCall == IF assistant_msg \in Range(acc)
                                      THEN acc ELSE Append(acc, assistant_msg)
                      IN PairMessages(msgs, i + 1, Append(withCall, msg))
                 ELSE PairMessages(msgs, i + 1, Append(acc, RewriteOrphan(msg)))
            ELSE PairMessages(msgs, i + 1, Append(acc, msg))

\* Memory.get_memory_with_summaries
GetMemoryWithSummaries(mem) ==
    PairMessages(mem.messages, 1,
                 [i \in 1..Len(mem.summaries) |-> SummaryMessage(mem.summaries[i])])

\* assistant_indices[id]: the last position in all_messages proposing id.
AssistantIndex(all, id) ==
    LET at == {i \in 1..Len(all) :
                  all[i].role = "assistant" /\ id \in Range(all[i].tool_calls)}
    IN CHOOSE i \in at : \A j \in at : j <= i

\* think's own pass over all_messages[i..].
RECURSIVE ThinkFilter(_, _, _)
ThinkFilter(all, i, acc) ==
    IF i > Len(all) THEN acc
    ELSE LET msg == all[i]
             ids == ToolCallIdsOf(all)
         IN IF msg.role = "tool" /\ msg.tool_call_id # NoId
            THEN IF msg.tool_call_id \in ids
                 THEN IF AssistantIndex(all, msg.tool_call_id) < i
                      THEN ThinkFilter(all, i + 1, Append(acc, msg))
                      ELSE ThinkFilter(all, i + 1, acc)
                 ELSE ThinkFilter(all, i + 1, Append(acc, RewriteOrphan(msg)))
            ELSE ThinkFilter(all, i + 1, Append(acc, msg))

\* messages_for_llm of ToolCallAgent.think
MessagesForLlm(mem) ==
    IF mem.summaries # << >>
    THEN ThinkFilter(GetMemoryWithSummaries(mem), 1, << >>)
    ELSE mem.messages

\* The messages a store may hold: user and assistant text, assistant
\* messages proposing tool calls 1 and 2, and tool responses to calls 1..3.
PoolMsg(role, proposed, callId, name, text) ==
    [id |-> 0, role |-> role, content |-> <<text>>, name |-> name,
     tool_calls |-> proposed, tool_call_id |-> callId]

MessagePool ==
    {PoolMsg("user", << >>, NoId, "", "ask"),
     PoolMsg("assistant", << >>, NoId, "", "say"),
     PoolMsg("assistant", <<1>>, NoId, "", ""),
     PoolMsg("assistant", <<1, 2>>, NoId, "", "say"),
     PoolMsg("tool", << >>, 1, "browser", "out"),
     PoolMsg("tool", << >>, 2, "python", "out"),
     PoolMsg("tool", << >>, 3, "python", "out")}

OneSummary == [start_idx |-> 0, end_idx |-> 0, content |-> <<1>>]

MatInit ==
    /\ \E n \in 0..MaxMatLen : \E msgs \in [1..n -> MessagePool] :
         \E sums \in {<< >>, <<OneSummary>>} :
            memory = [messages |-> msgs, summaries |-> sums,
                      last_compression_size |-> 0]
    /\ nextId = 1
    /\ capDropped = {}
    /\ hist = [op |-> "init", pct |-> compression_ratio, onCompacted |-> FALSE,
               priorPct |-> compression_ratio,
               prior |-> 0, systemInPrefix |-> 0, compacted |-> FALSE,
               changed |-> FALSE]
    /\ compressCalls = 0
    /\ appends = 0
    /\ MatIdle
    /\ RestIdle
    /\ AgentIdle
    /\ FlowIdle

Materialize ==
    /\ matPc = "idle"
    /\ materialized' = GetMemoryWithSummaries(memory)
    /\ matPc' = "get_memory_with_summaries"
    /\ UNCHANGED <<memVars, agentVars, flowVars, restVars>>

ThinkMaterialize ==
    /\ matPc = "idle"
    /\ materialized' = MessagesForLlm(memory)
    /\ matPc' = "think"
    /\ UNCHANGED <<memVars, agentVars, flowVars, restVars>>

MatNext == Materialize \/ ThinkMaterialize

SpecMat == MatInit /\ [][MatNext]_vars

\* Position i of seq is a tool message answering no tool call proposed by an
\* assistant message earlier in seq.
Orphan(seq, i) ==
    /\ seq[i].role = "tool"
    /\ ~\E j \in 1..(i - 1) :
          /\ seq[j].role = "assistant"
          /\ seq[i].tool_call_id \in Range(seq[j].tool_calls)

LiveOrphans ==
    {i \in 1..Len(memory.messages) :
        /\ memory.messages[i].role = "tool"
        /\ memory.messages[i].tool_call_id \notin ToolCallIdsOf(memory.messages)}

RepairedLive(msgs, i) ==
    IF /\ msgs[i].role = "tool"
       /\ msgs[i].tool_call_id # NoId
       /\ msgs[i].tool_call_id \notin ToolCallIdsOf(msgs)
    THEN RewriteOrphan(msgs[i])
    ELSE msgs[i]

\* C39 (as claimed): the materialised sequence is one system message per
\* Summary followed by every live message exactly once and in live order (a
\* tool message possibly replaced by its rewritten assistant message), for
\* any order of the messages in memory: nothing is dropped, duplicated or
\* moved.
C39_LiveMessagesOnceInOrder ==
    (matPc = "get_memory_with_summaries" \/ (matPc = "think" /\ memory.summaries # << >>))
        => materialized
             = [i \in 1..Len(memory.summaries) |-> SummaryMessage(memory.summaries[i])]
                  \o [i \in 1..Len(memory.messages) |-> RepairedLive(memory.messages, i)]

(***************************************************************************)
(* The run loop: BaseAgent.state_context, BaseAgent.run, ToolCallAgent.run *)
(* and the outcomes of one think/act iteration of ToolCallAgent.           *)
(***************************************************************************)
max_steps == 5     \* Manus.max_steps

\* self.messages += [user_msg]: appended without add_message's checks.
RawAppend(mem, msg) == [mem EXCEPT !.messages = Append(@, msg)]

\* An assistant message proposing tool call id, and the tool's response.
ToolCallMsg(id) == [Msg(id, "assistant") EXCEPT !.tool_calls = <<id>>]
ToolResponseMsg(id, callId) ==
    [Msg(id, "tool") EXCEPT !.tool_call_id = callId, !.name = "tool"]

\* run's and the loop's compression of a long conversation.
CompressIfLong(mem, sinceLast) ==
    IF /\ Len(mem.messages) > compression_threshold
       /\ sinceLast => Len(mem.messages) > mem.last_compression_size + 10
    THEN CompressMemory(mem, compression_ratio)
    ELSE mem

\* A run accepted although the agent is busy or finished.
RunAlways(s) == TRUE

\* run's precondition on the agent state.
RunPrecondition(s) == s = "IDLE"

\* BaseAgent.run up to the entry of state_context(RUNNING), or its RuntimeError.
Run(request) ==
    /\ calls < MaxCalls
    /\ calls' = calls + 1
    /\ call' = [outcome |-> IF RunPrecondition(state) THEN "accepted" ELSE "RuntimeError",
                from |-> state]
    /\ IF RunPrecondition(state)
       THEN /\ memory' = CompressIfLong(
                            IF request THEN AddMessageTo(memory, Msg(nextId, "user"))
                                       ELSE memory, FALSE)
            /\ nextId' = IF request THEN nextId + 1 ELSE nextId
            /\ previous_state' = state
            /\ state' = "RUNNING"
            /\ runPc' = "loop"
            /\ terminal' = FALSE
            /\ runIterations' = 0
            /\ report' = {}
            /\ cutShort' = FALSE
            /\ lastThink' = [token_fault |-> FALSE, asks |-> 0, compactions |-> 0,
                             retry_failed |-> FALSE]
            /\ UNCHANGED <<current_step, continuation_mode, iterations>>
       ELSE UNCHANGED <<memory, nextId, state, current_step, continuation_mode,
                        previous_state, runPc, iterations, terminal,
                        runIterations, report, cutShort, lastThink>>
    /\ UNCHANGED <<capDropped, hist, compressCalls, appends>>

\* The loop condition of BaseAgent.run.
LoopContinues == current_step < max_steps /\ state # "FINISHED"

\* The store after think has appended next_step_prompt.
Prompted ==
    RawAppend(CompressIfLong(memory, TRUE), Msg(nextId, "user"))

\* think's emergency compression after a token-limit failure of the model call.
EmergencyCompress(mem) == CompressMemory(mem, emergency_ratio)

\* The outcomes in which the first model call of think hits the token limit.
TokenFaults == {"token_limit", "token_retry"}

\* One iteration of the loop: think, then act on the proposed tool calls.
\*   act         a tool call is proposed and executed
\*   no_action   the model answers without a tool call
\*   terminal    the executed tool is in special_tool_names
\*   token_limit the token limit is hit again after the emergency compression
\*   token_retry the token limit is hit, the retry succeeds with a tool call
\*   fault       think raises; state_context's except clause runs
Step(outcome) ==
    /\ runPc = "loop"
    /\ LoopContinues
    /\ iterations < MaxIterations
    /\ iterations' = iterations + 1
    /\ runIterations' = runIterations + 1
    /\ current_step' = current_step + 1
    /\ cutShort' = (cutShort \/ outcome = "token_limit")
    /\ lastThink' = [token_fault |-> outcome \in TokenFaults,
                     asks |-> IF outcome \in TokenFaults THEN 2 ELSE 1,
                     compactions |-> IF /\ outcome \in TokenFaults
                                        /\ EmergencyCompress(Prompted) # Prompted
                                     THEN 1 ELSE 0,
                     retry_failed |-> outcome = "token_limit"]
    /\ CASE outcome \in {"act", "terminal", "token_retry"} ->
              /\ memory' = AddMessageTo(
                              AddMessageTo(IF outcome = "token_retry"
                                           THEN EmergencyCompress(Prompted)
                                           ELSE Prompted,
                                           ToolCallMsg(nextId + 1)),
                              ToolResponseMsg(nextId + 2, nextId + 1))
              /\ nextId' = nextId + 3
              /\ state' = IF outcome = "terminal" THEN "FINISHED" ELSE state
              /\ terminal' = (terminal \/ outcome = "terminal")
              /\ runPc' = runPc
         [] outcome = "no_action" ->
              /\ memory' = AddMessageTo(Prompted, Msg(nextId + 1, "assistant"))
              /\ nextId' = nextId + 2
              /\ UNCHANGED <<state, terminal, runPc>>
         [] outcome = "token_limit" ->
              /\ memory' = AddMessageTo(EmergencyCompress(Prompted),
                                        Msg(nextId + 1, "assistant"))
              /\ nextId' = nextId + 2
              /\ state' = "FINISHED"
              /\ UNCHANGED <<terminal, runPc>>
         [] outcome = "fault" ->
              /\ memory' = Prompted
              /\ nextId' = nextId + 1
              /\ state' = "ERROR"
              /\ runPc' = "unwinding"
              /\ UNCHANGED terminal
    /\ UNCHANGED <<continuation_mode, previous_state, call, calls, report>>
    /\ UNCHANGED <<capDropped, hist, compressCalls, appends>>

\* A context that leaves the state as its body left it.
KeepContextState(previous, inContext) == inContext

\* state_context's finally clause: self.state = previous_state.
RevertState(previous, inContext) == previous

\* state_context's finally clause after a fault; run re-raises to its caller.
Unwind ==
    /\ runPc = "unwinding"
    /\ state' = RevertState(previous_state, state)
    /\ runPc' = "raised"
    /\ UNCHANGED <<current_step, continuation_mode, previous_state, call, calls,
                   iterations, terminal, runIterations, report, cutShort,
                   lastThink>>
    /\ UNCHANGED memVars

\* A step counter left where the budget ran out.
KeepStep(exhausted, step) == step

\* self.current_step = 0 in both branches of the exhausted budget.
ResetStep(exhausted, step) == IF exhausted THEN 0 ELSE step

\* The loop ends: the step budget branch, state_context's finally clause,
\* and ToolCallAgent.run's check after super().run has returned.
LoopExit ==
    /\ runPc = "loop"
    /\ ~LoopContinues
    /\ LET exhausted == current_step >= max_steps
           continued == exhausted /\ continuation_mode
           noted     == IF continued
                        THEN CompressMemory(
                                AddMessageTo(memory, Msg(nextId, "system")),
                                compression_ratio)
                        ELSE memory
           inContext == IF exhausted /\ ~continuation_mode THEN "FINISHED" ELSE state
           after     == RevertState(previous_state, inContext)
           step      == ResetStep(exhausted, current_step)
           forced    == after = "FINISHED" /\ step >= max_steps
       IN /\ current_step' = step
          /\ state' = after
          /\ memory' = IF forced
                       THEN AddMessageTo(noted, Msg(nextId + 1, "system"))
                       ELSE noted
          /\ nextId' = nextId + 2
          /\ report' = IF continued THEN {"continues"}
                        ELSE IF exhausted THEN {"reached max steps"}
                        ELSE {}
    /\ runPc' = "returned"
    /\ UNCHANGED <<continuation_mode, previous_state, call, calls, iterations,
                   terminal, runIterations, cutShort, lastThink>>
    /\ UNCHANGED <<capDropped, hist, compressCalls, appends>>

\* web/app.py terminate_session: another thread forces the state.
ForceFinish ==
    /\ state # "FINISHED"
    /\ state' = "FINISHED"
    /\ cutShort' = (cutShort \/ runPc = "loop")
    /\ UNCHANGED <<current_step, continuation_mode, previous_state, runPc, call,
                   calls, iterations, terminal, runIterations, report, lastThink>>
    /\ UNCHANGED memVars

\* The store of an agent that has held a conversation before, short enough
\* never to have been compacted.
PriorConversation ==
    [messages |-> [i \in 1..PriorMessages |-> Msg(i, "user")],
     summaries |-> << >>, last_compression_size |-> 0]

AgentInit ==
    /\ memory \in {EmptyMemory, PriorConversation}
    /\ nextId = Len(memory.messages) + 1
    /\ capDropped = {}
    /\ hist = [op |-> "init", pct |-> compression_ratio, onCompacted |-> FALSE,
               priorPct |-> compression_ratio,
               prior |-> 0, systemInPrefix |-> 0, compacted |-> FALSE,
               changed |-> FALSE]
    /\ compressCalls = 0
    /\ appends = 0
    /\ MatIdle
    /\ RestIdle
    /\ AgentFresh
    /\ continuation_mode \in BOOLEAN
    /\ FlowIdle

AgentNext ==
    \/ \E request \in BOOLEAN : Run(request) /\ UNCHANGED <<matVars, restVars, flowVars>>
    \/ \E outcome \in {"act", "no_action", "terminal", "token_limit",
                       "token_retry", "fault"} :
          Step(outcome) /\ UNCHANGED <<matVars, restVars, flowVars>>
    \/ Unwind /\ UNCHANGED <<matVars, restVars, flowVars>>
    \/ LoopExit /\ UNCHANGED <<matVars, restVars, flowVars>>
    \/ ForceFinish /\ UNCHANGED <<matVars, restVars, flowVars>>

SpecAgent == AgentInit /\ [][AgentNext]_vars

\* C8: once a terminal tool has executed in a run, the state is Finished, no
\* further iteration starts, and the state is still Finished after run has
\* returned.
C8_FinishedPersists ==
    /\ (terminal /\ runPc = "loop") => state = "FINISHED"
    /\ (terminal /\ runPc = "returned") => state = "FINISHED"

\* C9: after a fault raised by a think or act step has been re-raised by run,
\* the agent state is Error.
C9_ErrorAfterFault == runPc = "raised" => state = "ERROR"

\* C10: an invocation of run in a state other than Idle is answered with an
\* error and changes neither the memory, the state, the step counter nor the
\* position of the loop; every iteration belongs to an accepted run.
C10_RunOnlyFromIdle ==
    [][/\ (calls' = calls + 1 /\ state # "IDLE")
           => /\ call'.outcome = "RuntimeError"
              /\ UNCHANGED <<memory, state, current_step, runPc, iterations, terminal>>
       /\ iterations' > iterations => runPc = "loop"
       /\ (runPc' = "loop" /\ runPc # "loop") => call'.outcome = "accepted"]_vars

\* run has been rejected while an accepted run was iterating.
C10_Witness ==
    /\ call.outcome = "RuntimeError"
    /\ call.from = "RUNNING"
    /\ runPc = "loop"
    /\ iterations > 0

(***************************************************************************)
(* The plan scheduler: PlanningFlow.execute.  Steps are numbered from 1;   *)
(* the plan is planning_tool.plans[active_plan_id].                        *)
(***************************************************************************)
max_executions_per_step == 3

\* PlanStepStatus.get_active_statuses()
ActiveStatuses == {"not_started", "in_progress"}

\* The first position of statuses whose status is in wanted, or NoStep.
FirstWith(statuses, wanted) ==
    LET at == {i \in 1..Len(statuses) : statuses[i] \in wanted}
    IN IF at = {} THEN NoStep ELSE CHOOSE i \in at : \A j \in at : i <= j

\* A scheduler that starts the next untouched step whatever is in flight.
FirstNotStarted(statuses) == FirstWith(statuses, {"not_started"})

\* A selection that also hands out blocked steps.
FirstUnfinished(statuses) ==
    FirstWith(statuses, {"not_started", "in_progress", "blocked"})

\* The index _get_current_step_info returns: the step in progress if there
\* is one, else the first step with an active status, else none.
CurrentStepIndex(statuses) ==
    IF FirstWith(statuses, {"in_progress"}) # NoStep
    THEN FirstWith(statuses, {"in_progress"})
    ELSE FirstWith(statuses, ActiveStatuses)

\* PlanningTool mark_step (and _update_step_status's direct fallback).
UpdateStepStatus(statuses, step_index, status) ==
    [statuses EXCEPT ![step_index] = status]

\* The plan after _get_current_step_info: a step found not in progress is
\* marked in progress.
Selected(statuses) ==
    LET i == CurrentStepIndex(statuses)
    IN IF i # NoStep /\ statuses[i] # "in_progress"
       THEN UpdateStepStatus(statuses, i, "in_progress")
       ELSE statuses

\* A pass that is not counted.
StalledExecutionCount(count) == count

\* step_execution_count.get(step_key, 0) + 1
NextExecutionCount(count) == count + 1

\* PlanningFlow.DEFAULT_STEPS (the three step texts, in English)
DEFAULT_STEPS == <<"analyze requirements", "execute task", "verify results">>

\* What the model may answer to the plan request of _create_initial_plan.
PlanOutcomes == {"planning_call", "no_call", "bad_arguments", "model_fails"}

\* A plan creation without the default plan.
NoFallback(outcome, n) == IF outcome = "planning_call" THEN n ELSE 0

\* The number of steps of the plan _create_initial_plan leaves behind: the
\* planning tool's plan for a planning call (none when the call creates no
\* plan), the default plan when no planning call was executed.
PlanSteps(outcome, n) ==
    IF outcome = "planning_call" THEN n ELSE Len(DEFAULT_STEPS)

\* The notice execute puts in its result for a step it completes by force.
ForcedNotice == "reached the maximum number of attempts, completed by force"

\* The notice BaseAgent.run puts in its result when it continues.
ContinuationNotice == "task not yet complete, the task will continue"

\* A forced completion that leaves no line in the result.
SilentForced(rep, step_index) == rep

\* result += the forced-completion line of the step
ReportForced(rep, step_index) == rep \cup {<<step_index, ForcedNotice>>}

\* result += the step's line with the step's result
ReportStep(rep, step_index, text) == rep \cup {<<step_index, text>>}

\* A prompt that never mentions an earlier result.
FreshPrompt(step_index, previous_result) ==
    [step |-> step_index, previous_result |-> NoResult]

\* _create_step_prompt: the step, and the previous result when there is one.
StepPrompt(step_index, previous_result) ==
    [step |-> step_index, previous_result |-> previous_result]

\* step_intermediate_results.get(step_key, "")
IntermediateResult(results, step_index) ==
    IF \E p \in results : p[1] = step_index
    THEN (CHOOSE p \in results : p[1] = step_index)[2]
    ELSE NoResult

\* step_intermediate_results[step_key] = step_result
StoreIntermediate(results, step_index, stored) ==
    {p \in results : p[1] # step_index} \cup {<<step_index, stored>>}

\* del step_intermediate_results[step_key]
DeleteIntermediate(results, step_index) ==
    {p \in results : p[1] # step_index}

\* A gate that no score satisfies.
GateNeverPassed(score) == FALSE

\* A gate that asks for more than the threshold.
GatePassedStrict(score) == score > subtask_quality_threshold

\* evaluation.score >= quality_threshold
GatePassed(score) == score >= subtask_quality_threshold

\* execute_planned_step wraps the run in the quality gate.
Gated == has_planned_step /\ subtask_evaluation_enabled

\* _create_initial_plan and execute's test that the plan exists: the plan of
\* the planning call or the default plan, all steps not started; a failing
\* model call reaches execute's handler, a planning call that creates no
\* plan ends execute.
FlowCreatePlan(outcome, n) ==
    /\ flowPc = "start"
    /\ planOutcome' = outcome
    /\ IF outcome = "model_fails" \/ PlanSteps(outcome, n) = 0
       THEN /\ flowPc' = "returned"
            /\ flowResult' = "failed"
            /\ UNCHANGED <<step_statuses, step_execution_count>>
       ELSE /\ step_statuses' = [i \in 1..PlanSteps(outcome, n) |-> "not_started"]
            /\ step_execution_count' = [i \in 1..PlanSteps(outcome, n) |-> 0]
            /\ flowPc' = "loop"
            /\ flowResult' = flowResult
    /\ UNCHANGED <<has_planned_step, step_intermediate_results, current_step_index,
                   flowReport, forcedSteps, step_prompt, stepTerminal, step_result,
                   gateVars>>
    /\ UNCHANGED state

\* No step is left: _finalize_plan, and execute returns the result.
FlowFinalize ==
    /\ flowPc = "loop"
    /\ CurrentStepIndex(step_statuses) = NoStep
    /\ current_step_index' = NoStep
    /\ flowPc' = "returned"
    /\ flowResult' = "plan"
    /\ UNCHANGED <<has_planned_step, step_statuses, step_execution_count,
                   step_intermediate_results, flowReport, forcedSteps, step_prompt,
                   stepTerminal, planOutcome, step_result, gateVars>>
    /\ UNCHANGED state

\* A pass over a step within its ceiling: it is selected and counted, and
\* its prompt is built.
FlowBeginStep ==
    /\ flowPc = "loop"
    /\ LET i == CurrentStepIndex(step_statuses)
       IN /\ i # NoStep
          /\ NextExecutionCount(step_execution_count[i]) <= max_executions_per_step
          /\ current_step_index' = i
          /\ step_statuses' = Selected(step_statuses)
          /\ step_execution_count' =
                [step_execution_count EXCEPT ![i] = NextExecutionCount(@)]
          /\ step_prompt' =
                StepPrompt(i, IntermediateResult(step_intermediate_results, i))
    /\ flowPc' = "executing"
    /\ stepTerminal' = FALSE
    /\ UNCHANGED <<has_planned_step, step_intermediate_results, flowResult,
                   flowReport, forcedSteps, planOutcome, step_result, gateVars>>
    /\ UNCHANGED state

\* A pass over a step beyond its ceiling: it is marked completed unexecuted
\* and the result says so.
FlowForceComplete ==
    /\ flowPc = "loop"
    /\ LET i == CurrentStepIndex(step_statuses)
       IN /\ i # NoStep
          /\ NextExecutionCount(step_execution_count[i]) > max_executions_per_step
          /\ current_step_index' = i
          /\ step_statuses' = UpdateStepStatus(Selected(step_statuses), i, "completed")
          /\ step_execution_count' =
                [step_execution_count EXCEPT ![i] = NextExecutionCount(@)]
          /\ flowReport' = ReportForced(flowReport, i)
          /\ forcedSteps' = forcedSteps \cup {<<i, "over ceiling">>}
    /\ step_result' = ForcedNotice
    /\ UNCHANGED <<flowPc, has_planned_step, step_intermediate_results, flowResult,
                   step_prompt, stepTerminal, planOutcome, gateVars>>
    /\ UNCHANGED state

\* What execute (or _execute_step) does with the result of the pass: a
\* result with a continuation marker is stored and the step stays in
\* progress, under execute_planned_step only below the ceiling; any other
\* result completes the step.  below_standard: the quality gate let the
\* result through under its threshold.
HandleStepResult(is_incomplete, below_standard) ==
    /\ LET i == current_step_index
           stays == IF has_planned_step
                    THEN is_incomplete
                         /\ step_execution_count[i] < max_executions_per_step
                    ELSE is_incomplete
       IN /\ IF stays
             THEN /\ step_intermediate_results' =
                        StoreIntermediate(step_intermediate_results, i,
                                          step_execution_count[i])
                  /\ UNCHANGED <<step_statuses, forcedSteps>>
             ELSE /\ step_statuses' = UpdateStepStatus(step_statuses, i, "completed")
                  /\ step_intermediate_results' =
                        DeleteIntermediate(step_intermediate_results, i)
                  /\ forcedSteps' = forcedSteps
                        \cup (IF is_incomplete THEN {<<i, "at ceiling">>} ELSE {})
                        \cup (IF below_standard THEN {<<i, "quality">>} ELSE {})
          /\ step_result' = IF is_incomplete THEN ContinuationNotice ELSE "result"
          /\ flowReport' = ReportStep(flowReport, i, step_result')
    /\ flowPc' = "check"
    /\ UNCHANGED <<has_planned_step, step_execution_count, current_step_index,
                   flowResult, step_prompt, planOutcome>>

\* The executor's run returns a result that carries a continuation marker
\* (incomplete) or none, after a terminal tool was invoked or not;
\* executor.run is accepted only from Idle, and state_context puts the state
\* back to what it was before the run.
FlowStepReturns(is_incomplete, terminated) ==
    /\ flowPc = "executing"
    /\ ~Gated
    /\ RunPrecondition(state)
    /\ HandleStepResult(is_incomplete, FALSE)
    /\ stepTerminal' = terminated
    /\ UNCHANGED gateVars
    /\ UNCHANGED state

\* The executor's run raises: execute_planned_step lets it reach execute's
\* handler, _execute_step turns it into the step's result.
FlowStepRaises ==
    /\ flowPc = "executing"
    /\ ~Gated
    /\ IF has_planned_step
       THEN /\ flowPc' = "returned"
            /\ flowResult' = "failed"
            /\ flowReport' = {}
            /\ step_result' = step_result
       ELSE /\ flowPc' = "check"
            /\ flowResult' = flowResult
            /\ step_result' = "step_error"
            /\ flowReport' = ReportStep(flowReport, current_step_index, step_result')
    /\ UNCHANGED <<has_planned_step, step_statuses, step_execution_count,
                   step_intermediate_results, current_step_index, forcedSteps,
                   step_prompt, stepTerminal, planOutcome, gateVars>>
    /\ UNCHANGED state

\* The check that ends the loop when the executor's state is FINISHED.
FlowCheckTerminate ==
    /\ flowPc = "check"
    /\ IF state = "FINISHED"
       THEN flowPc' = "returned" /\ flowResult' = "plan"
       ELSE flowPc' = "loop" /\ flowResult' = flowResult
    /\ UNCHANGED <<has_planned_step, step_statuses, step_execution_count,
                   step_intermediate_results, current_step_index, flowReport,
                   forcedSteps, step_prompt, stepTerminal, planOutcome, step_result, gateVars>>
    /\ UNCHANGED state

\* The session is terminated from outside while execute is under way.
FlowForceFinish ==
    /\ flowPc \notin {"start", "returned"}
    /\ ForceFinish
    /\ UNCHANGED flowVars

FlowInit ==
    /\ memory = EmptyMemory
    /\ nextId = 1
    /\ capDropped = {}
    /\ hist = [op |-> "init", pct |-> compression_ratio, onCompacted |-> FALSE,
               priorPct |-> compression_ratio,
               prior |-> 0, systemInPrefix |-> 0, compacted |-> FALSE,
               changed |-> FALSE]
    /\ compressCalls = 0
    /\ appends = 0
    /\ MatIdle
    /\ RestIdle
    /\ AgentIdle
    /\ FlowFresh
    /\ has_planned_step \in BOOLEAN
    /\ GateOff

FlowStep ==
    \/ \E outcome \in PlanOutcomes, n \in 0..MaxPlanSteps : FlowCreatePlan(outcome, n)
    \/ FlowFinalize
    \/ FlowBeginStep
    \/ FlowForceComplete
    \/ \E is_incomplete, terminated \in BOOLEAN :
          FlowStepReturns(is_incomplete, terminated)
    \/ FlowStepRaises
    \/ FlowCheckTerminate

FlowRest ==
    UNCHANGED <<memVars, matVars, restVars, current_step, continuation_mode, previous_state,
                runPc, call, calls, iterations, terminal, runIterations, report,
                cutShort, lastThink>>

FlowNext ==
    \/ \E outcome \in PlanOutcomes, n \in 0..MaxPlanSteps :
          FlowCreatePlan(outcome, n) /\ FlowRest
    \/ FlowFinalize /\ FlowRest
    \/ FlowBeginStep /\ FlowRest
    \/ FlowForceComplete /\ FlowRest
    \/ \E is_incomplete, terminated \in BOOLEAN :
          FlowStepReturns(is_incomplete, terminated) /\ FlowRest
    \/ FlowStepRaises /\ FlowRest
    \/ FlowCheckTerminate /\ FlowRest
    \/ FlowForceFinish /\ UNCHANGED <<matVars, restVars>>

SpecFlow == FlowInit /\ [][FlowNext]_vars

\* execute runs in one asyncio task that is always resumed.
FairFlow == SpecFlow /\ WF_vars(FlowStep /\ FlowRest)

\* ---------------------------------------------------------------------
\* Manus.execute_planned_step with sub-task evaluation: the run of the step
\* loop, its evaluation, one improvement attempt and the retries.

\* The scores the evaluator may give (the threshold and two below it).
Scores == {6, 7, subtask_quality_threshold}

\* if retry_count >= max_retries: break
RetriesExhausted(count, max_retries) == count >= max_retries

\* The locals of execute_planned_step go with its return.
GateReset ==
    /\ gatePc' = "idle"
    /\ gateRuns' = 0
    /\ gateScores' = << >>
    /\ retry_count' = 0
    /\ improvement_plan' = FALSE
    /\ current_result' = NoOutput

\* result = await super().run(prompt); current_result = result; evaluation =
\* await self.evaluator.evaluate_task(...)
GateRun(marker, terminated, score) ==
    /\ RunPrecondition(state)
    /\ gateRuns' = gateRuns + 1
    /\ current_result' = [run |-> gateRuns + 1, marker |-> marker]
    /\ gateScores' = Append(gateScores, score)
    /\ stepTerminal' = (stepTerminal \/ terminated)

\* What no step of execute_planned_step touches.
GateFrame ==
    UNCHANGED <<flowPc, has_planned_step, step_statuses, step_execution_count,
                step_intermediate_results, current_step_index, flowResult,
                flowReport, forcedSteps, step_prompt, planOutcome, step_result, gateConfig,
                state>>

\* The first run and its evaluation: a score at the threshold ends the pass.
GateFirstRun(marker, terminated, score) ==
    /\ flowPc = "executing"
    /\ Gated
    /\ gatePc = "idle"
    /\ GateRun(marker, terminated, score)
    /\ gatePc' = IF GatePassed(score) THEN "done" ELSE "improve"
    /\ UNCHANGED <<retry_count, improvement_plan>>
    /\ GateFrame

\* Below the threshold: with an optimizer and a plan from it, one improvement
\* run and its evaluation; then the pass ends if the score is at the
\* threshold or no retries are configured, else the retries start.
GateImprove(plan_made, marker, terminated, score) ==
    /\ flowPc = "executing"
    /\ gatePc = "improve"
    /\ LET attempts == /\ enable_auto_improvement
                       /\ max_improvement_iterations > 0
                       /\ plan_made
           passed == attempts /\ GatePassed(score)
           ends == passed \/ subtask_max_retries = 0
       IN /\ IF attempts
             THEN GateRun(marker, terminated, score)
             ELSE UNCHANGED <<gateRuns, current_result, gateScores, stepTerminal>>
          /\ improvement_plan' = attempts
          /\ gatePc' = IF ends THEN "done" ELSE "retry"
          /\ retry_count' = IF ends THEN retry_count ELSE 1
    /\ GateFrame

\* One turn of the retry loop: a run and its evaluation; the loop ends on a
\* score at the threshold or when the retries are used up.
GateRetry(plan_made, marker, terminated, score) ==
    /\ flowPc = "executing"
    /\ gatePc = "retry"
    /\ retry_count <= subtask_max_retries
    /\ GateRun(marker, terminated, score)
    /\ IF GatePassed(score) \/ RetriesExhausted(retry_count, subtask_max_retries)
       THEN /\ gatePc' = "done"
            /\ UNCHANGED <<retry_count, improvement_plan>>
       ELSE /\ retry_count' = retry_count + 1
            /\ improvement_plan' =
                  IF enable_auto_improvement
                     /\ retry_count + 1 <= max_improvement_iterations
                  THEN plan_made ELSE improvement_plan
            /\ gatePc' = IF retry_count + 1 <= subtask_max_retries
                         THEN "retry" ELSE "done"
    /\ GateFrame

\* A run, the evaluator or the optimizer raises: the finally clause lets the
\* exception through to execute's handler.
GateRaises ==
    /\ flowPc = "executing"
    /\ Gated
    /\ gatePc \in {"idle", "improve", "retry"}
    /\ flowPc' = "returned"
    /\ flowResult' = "failed"
    /\ flowReport' = {}
    /\ GateReset
    /\ UNCHANGED <<has_planned_step, step_statuses, step_execution_count,
                   step_intermediate_results, current_step_index, forcedSteps,
                   step_prompt, stepTerminal, planOutcome, step_result, gateConfig, state>>

\* return current_result, and what execute does with it.
GateReturn ==
    /\ flowPc = "executing"
    /\ gatePc = "done"
    /\ HandleStepResult(current_result.marker,
                        ~GatePassed(gateScores[Len(gateScores)]))
    /\ GateReset
    /\ UNCHANGED <<gateConfig, stepTerminal, state>>

\* Manus.run has switched sub-task evaluation on; retries and the optimizer
\* are as configured.  The plans are those of a planning call, and nothing
\* ends the session from outside.
GateStart ==
    /\ memory = EmptyMemory
    /\ nextId = 1
    /\ capDropped = {}
    /\ hist = [op |-> "init", pct |-> compression_ratio, onCompacted |-> FALSE,
               priorPct |-> compression_ratio,
               prior |-> 0, systemInPrefix |-> 0, compacted |-> FALSE,
               changed |-> FALSE]
    /\ compressCalls = 0
    /\ appends = 0
    /\ MatIdle
    /\ RestIdle
    /\ AgentIdle
    /\ FlowFresh
    /\ has_planned_step \in BOOLEAN
    /\ subtask_evaluation_enabled = TRUE
    /\ subtask_max_retries \in 0..MaxRetries
    /\ enable_auto_improvement \in BOOLEAN

GateNext ==
    \/ \E n \in 0..GatePlanSteps : FlowCreatePlan("planning_call", n) /\ FlowRest
    \/ FlowFinalize /\ FlowRest
    \/ FlowBeginStep /\ FlowRest
    \/ FlowForceComplete /\ FlowRest
    \/ \E is_incomplete, terminated \in BOOLEAN :
          FlowStepReturns(is_incomplete, terminated) /\ FlowRest
    \/ FlowStepRaises /\ FlowRest
    \/ FlowCheckTerminate /\ FlowRest
    \/ \E marker, terminated \in BOOLEAN, score \in Scores :
          GateFirstRun(marker, terminated, score) /\ FlowRest
    \/ \E plan_made, marker, terminated \in BOOLEAN, score \in Scores :
          GateImprove(plan_made, marker, terminated, score) /\ FlowRest
    \/ \E plan_made, marker, terminated \in BOOLEAN, score \in Scores :
          GateRetry(plan_made, marker, terminated, score) /\ FlowRest
    \/ GateRaises /\ FlowRest
    \/ GateReturn /\ FlowRest

SpecGate == GateStart /\ [][GateNext]_vars

InProgressSteps == {i \in 1..Len(step_statuses) : step_statuses[i] = "in_progress"}

\* C1: at every point of execute, at most one step of the plan is in progress.
C1_SingleInFlightStep == Cardinality(InProgressSteps) <= 1

\* A second step is in flight after the first was completed, a third waits.
C1_Witness ==
    /\ flowPc = "executing"
    /\ Cardinality(InProgressSteps) = 1
    /\ step_intermediate_results # {}
    /\ \E i \in 1..Len(step_statuses) : step_statuses[i] = "completed"
    /\ \E i \in 1..Len(step_statuses) : step_statuses[i] = "not_started"

C11_BudgetExhaustion ==
    (runPc = "returned" /\ ~continuation_mode /\ ~terminal /\ ~cutShort)
        => /\ runIterations = max_steps
           /\ state = "FINISHED"
           /\ "reached max steps" \in report

\* The step of run that takes the continuation branch of the exhausted budget.
ContinuationTaken == "continues" \in report' /\ "continues" \notin report

\* What that step does to the counter, the memory and the state.
ContinuationEffect ==
    /\ current_step' = 0
    /\ \E i \in 1..Len(memory'.messages) :
          /\ memory'.messages[i].id = nextId
          /\ memory'.messages[i].role = "system"
    /\ state' # "FINISHED"

\* C12 as stated: on the exhausted budget with continuation enabled the
\* counter is reset, a system note is appended, the state is not forced to
\* Finished, and the think/act loop of the run keeps running.
C12_LoopKeepsRunning ==
    [][ContinuationTaken => (ContinuationEffect /\ runPc' = "loop")]_vars

\* C12 amended: the counter is reset, the note appended and the state not
\* forced to Finished, and run returns its report without a further
\* iteration; a run never performs more than max_steps iterations, so the
\* total is the caller's number of runs times max_steps.
C12_ContinuationReturns ==
    /\ [][ContinuationTaken
            => /\ ContinuationEffect
               /\ runPc' = "returned"
               /\ runIterations' = runIterations]_vars
    /\ [](runIterations <= max_steps)
    /\ []("continues" \in report => (runPc # "loop" /\ continuation_mode))

\* A run has used its whole budget and returned through the continuation branch.
C12_Witness ==
    /\ "continues" \in report
    /\ runPc = "returned"
    /\ runIterations = max_steps
    /\ current_step = 0
    /\ ~terminal

\* C13: a think whose model call hits the token limit performs exactly one
\* emergency compaction and exactly one retry; after a failed retry the
\* failure message is the last message of the store and the state is
\* Finished for the rest of the loop, after a successful one the run goes on.
C13_TokenLimitRecovery ==
    lastThink.token_fault
        => /\ lastThink.compactions = 1
           /\ lastThink.asks = 2
           /\ (lastThink.retry_failed /\ runPc = "loop")
                 => /\ state = "FINISHED"
                    /\ memory.messages[Len(memory.messages)].role = "assistant"
           /\ (~lastThink.retry_failed /\ runPc = "loop" /\ ~cutShort)
                 => state = "RUNNING"


\* ---------------------------------------------------------------------
\* Step selection on its own: _get_current_step_info applied to plans in
\* every combination of statuses.  Steps are numbered from 1 here and from 0
\* in the source; NoStep stands for the (None, None) result.

\* PlanStepStatus.get_all_statuses()
AllStatuses == {"not_started", "in_progress", "completed", "blocked"}

\* The plans of up to MaxPlanSteps steps, in any statuses.
Plans == UNION {[1..n -> AllStatuses] : n \in 0..MaxPlanSteps}

\* One call of _get_current_step_info by the loop of execute.
SelectNextStep ==
    /\ flowPc = "loop"
    /\ current_step_index' = CurrentStepIndex(step_statuses)
    /\ step_statuses' = Selected(step_statuses)
    /\ flowPc' = IF CurrentStepIndex(step_statuses) = NoStep
                 THEN "returned" ELSE "executing"
    /\ UNCHANGED <<has_planned_step, step_execution_count,
                   step_intermediate_results, flowResult, flowReport, forcedSteps,
                   step_prompt, stepTerminal, planOutcome, step_result, gateVars>>
    /\ UNCHANGED <<memVars, matVars, restVars, agentVars>>

\* _mark_step_completed on the step that was selected.
MarkStepCompleted ==
    /\ flowPc = "executing"
    /\ step_statuses' = UpdateStepStatus(step_statuses, current_step_index, "completed")
    /\ flowPc' = "loop"
    /\ UNCHANGED <<has_planned_step, step_execution_count,
                   step_intermediate_results, flowResult, current_step_index,
                   flowReport, forcedSteps, step_prompt, stepTerminal, planOutcome, step_result,
                   gateVars>>
    /\ UNCHANGED <<memVars, matVars, restVars, agentVars>>

SelectStart ==
    /\ memory = EmptyMemory
    /\ nextId = 1
    /\ capDropped = {}
    /\ hist = [op |-> "init", pct |-> compression_ratio, onCompacted |-> FALSE,
               priorPct |-> compression_ratio,
               prior |-> 0, systemInPrefix |-> 0, compacted |-> FALSE,
               changed |-> FALSE]
    /\ compressCalls = 0
    /\ appends = 0
    /\ MatIdle
    /\ RestIdle
    /\ AgentIdle
    /\ flowPc = "loop"
    /\ has_planned_step = TRUE
    /\ step_statuses \in Plans
    /\ step_execution_count = [i \in 1..Len(step_statuses) |-> 0]
    /\ step_intermediate_results = {}
    /\ current_step_index = NoStep
    /\ flowResult = "none"
    /\ flowReport = {}
    /\ forcedSteps = {}
    /\ step_prompt = [step |-> NoStep, previous_result |-> NoResult]
    /\ stepTerminal = FALSE
    /\ planOutcome = "none"
    /\ step_result = "none"
    /\ GateIdle
    /\ GateOff

SelectNext ==
    \/ SelectNextStep
    \/ MarkStepCompleted

SpecSelect == SelectStart /\ [][SelectNext]_vars

\* The positions of statuses whose status is status.
StepsIn(statuses, status) == {i \in 1..Len(statuses) : statuses[i] = status}

\* The least element of a non-empty set of positions.
Lowest(positions) == CHOOSE i \in positions : \A j \in positions : i <= j

\* C14: step selection returns the step in progress, the plan unchanged, if
\* there is one; else the lowest not-started step, which it marks in
\* progress; else nothing.  A completed or blocked step is never returned; a
\* fresh three-step plan yields its first step and, that one completed, its
\* second.
C14_SelectNextStep ==
    [][(flowPc = "loop" /\ flowPc' # "loop")
        => /\ IF StepsIn(step_statuses, "in_progress") # {}
              THEN /\ current_step_index' = Lowest(StepsIn(step_statuses, "in_progress"))
                   /\ step_statuses' = step_statuses
              ELSE IF StepsIn(step_statuses, "not_started") # {}
              THEN /\ current_step_index' = Lowest(StepsIn(step_statuses, "not_started"))
                   /\ step_statuses' =
                        [step_statuses EXCEPT ![current_step_index'] = "in_progress"]
              ELSE /\ current_step_index' = NoStep
                   /\ step_statuses' = step_statuses
           /\ current_step_index' # NoStep
                => step_statuses[current_step_index'] \notin {"completed", "blocked"}
           /\ step_statuses = <<"not_started", "not_started", "not_started">>
                => current_step_index' = 1
           /\ step_statuses = <<"completed", "not_started", "not_started">>
                => current_step_index' = 2]_vars

\* The second step was selected after the first was completed, past a
\* blocked one nothing is selected.
C14_Witness ==
    /\ flowPc = "executing"
    /\ current_step_index = 2
    /\ step_statuses = <<"completed", "in_progress", "blocked">>


\* The step of execute_planned_step that returns the pass's result to execute.
GateReturns == gatePc = "done" /\ gatePc' = "idle" /\ flowPc' = "check"

\* The pass's result carries the continuation marker and the step is below
\* its ceiling of passes.
ResultContinues ==
    /\ current_result.marker
    /\ step_execution_count[current_step_index] < max_executions_per_step

\* The first evaluation of the pass scored at or above the threshold.
FirstAttemptPassed ==
    /\ Len(gateScores) >= 1
    /\ gateScores[1] >= subtask_quality_threshold

\* C15 as stated: when the first attempt's evaluation scores at or above
\* the threshold, the step loop is not run again for the step and the step
\* is marked completed.
C15_PassedFirstCompleted ==
    /\ [](FirstAttemptPassed => gateRuns = 1)
    /\ [][(GateReturns /\ FirstAttemptPassed)
            => step_statuses'[current_step_index] = "completed"]_vars

\* C15 amended: when the first attempt's evaluation scores at or above the
\* threshold, the pass ends without another run of the step loop; the step
\* is marked completed unless the attempt's output carries the continuation
\* marker below the ceiling, in which case it stays in progress with the
\* output stored, to be run again on the next pass.
C15_PassedFirstEndsPass ==
    /\ [](FirstAttemptPassed => (gateRuns = 1 /\ gatePc = "done"))
    /\ [][(GateReturns /\ FirstAttemptPassed)
            => IF ResultContinues
               THEN /\ step_statuses'[current_step_index] = "in_progress"
                    /\ IntermediateResult(step_intermediate_results',
                                          current_step_index) # NoResult
               ELSE step_statuses'[current_step_index] = "completed"]_vars

\* A first attempt scored at the threshold and its output carries the
\* continuation marker, on the step's first pass.
C15_Witness ==
    /\ gatePc = "done"
    /\ gateScores = <<subtask_quality_threshold>>
    /\ gateRuns = 1
    /\ ResultContinues

\* The runs the retry loop has made when it is about to make its next one.
RunsBeforeRetry == (IF improvement_plan THEN 2 ELSE 1) + (retry_count - 1)

AccountedSteps == {p[1] : p \in {q \in flowReport : q[2] = ForcedNotice}}

\* C17 as stated: when execute has returned, its result holds an account of
\* the forced completion of every step that was completed by force, be it
\* for the quality retries used up below the threshold or for the ceiling of
\* passes.
C17_ForcedCompletionReported ==
    flowPc = "returned" => \A f \in forcedSteps : f[1] \in AccountedSteps

\* C17 amended: the result execute returns from a plan it carried through
\* holds the forced-completion line of exactly the steps that were selected
\* again beyond the ceiling of passes; a step completed on its last pass
\* with a continuation notice, or let through by the quality gate below the
\* threshold, has only its own output there.
C17_OverCeilingReported ==
    (flowPc = "returned" /\ flowResult = "plan")
        => AccountedSteps = {f[1] : f \in {g \in forcedSteps : g[2] = "over ceiling"}}

\* execute has returned the result of a plan one step of which it completed
\* beyond the ceiling of passes, with the account of it.
C17_Witness ==
    /\ flowPc = "returned"
    /\ flowResult = "plan"
    /\ \E i \in 1..Len(step_statuses) :
          /\ <<i, "over ceiling">> \in forcedSteps
          /\ <<i, ForcedNotice>> \in flowReport
          /\ step_statuses[i] = "completed"


\* A pass ends with a result that carries the continuation marker, the step
\* being below its ceiling of passes.
IncompleteBelowCeiling ==
    /\ flowPc = "executing"
    /\ flowPc' = "check"
    /\ step_result' = ContinuationNotice
    /\ step_execution_count[current_step_index] < max_executions_per_step

\* C18: a result with the continuation marker, below the ceiling, leaves the
\* step in progress and is stored as the step's intermediate result, so that
\* the step is the one selected next; and the prompt of every pass is built
\* for the selected step and embeds the result stored for it.
C18_IncompleteStepResumed ==
    /\ [][IncompleteBelowCeiling
            => /\ step_statuses'[current_step_index] = "in_progress"
               /\ <<current_step_index, step_execution_count[current_step_index]>>
                     \in step_intermediate_results'
               /\ CurrentStepIndex(step_statuses') = current_step_index]_vars
    /\ [](flowPc = "executing"
            => /\ step_prompt.step = current_step_index
               /\ \A p \in step_intermediate_results :
                     p[1] = current_step_index => step_prompt.previous_result = p[2])
    /\ [](\A p, q \in step_intermediate_results : p[1] = q[1] => p = q)

\* The second pass over a step whose first pass was incomplete: the step is
\* still in progress and the prompt embeds the result of the first pass.
C18_Witness ==
    /\ flowPc = "executing"
    /\ current_step_index # NoStep
    /\ step_execution_count[current_step_index] = 2
    /\ step_statuses[current_step_index] = "in_progress"
    /\ step_result = ContinuationNotice
    /\ <<current_step_index, 1>> \in step_intermediate_results
    /\ step_prompt = [step |-> current_step_index, previous_result |-> 1]


\* C19: after a pass in whose run a terminal tool was invoked, execute
\* leaves its loop: its check of the executor's state is followed by the
\* return, never by the selection of another step.
C19_TerminalToolStopsPlan ==
    [][(flowPc = "check" /\ stepTerminal /\ flowPc' # "check")
          => flowPc' = "returned"]_vars


\* The step of execute that creates the plan.
PlanCreated == flowPc = "start" /\ flowPc' # "start"

\* The default plan as the planning tool stores it.
DefaultPlanStatuses == [i \in 1..Len(DEFAULT_STEPS) |-> "not_started"]

\* C20 as stated: whenever no structured plan is obtained, for want of a
\* planning tool call, for unparsable arguments or for a failing model call,
\* the plan becomes the default plan of three steps, none started, and
\* execute goes on to run it.
C20_FallbackOnAnyFailure ==
    [][(PlanCreated /\ planOutcome' \in {"no_call", "bad_arguments", "model_fails"})
          => /\ step_statuses' = DefaultPlanStatuses
             /\ flowPc' = "loop"]_vars

\* C20 amended: without a planning tool call, or with unparsable arguments,
\* the plan becomes the default plan of three steps, none started, and
\* execute goes on to run it; a failing model call ends execute with a
\* failure report and no plan.
C20_FallbackWithoutPlanningCall ==
    /\ [][(PlanCreated /\ planOutcome' \in {"no_call", "bad_arguments"})
            => /\ step_statuses' = DefaultPlanStatuses
               /\ Len(step_statuses') = 3
               /\ flowPc' = "loop"]_vars
    /\ [][(PlanCreated /\ planOutcome' = "model_fails")
            => /\ step_statuses' = << >>
               /\ flowPc' = "returned"
               /\ flowResult' = "failed"]_vars
    /\ [](planOutcome = "model_fails" => (flowPc = "returned" /\ flowReport = {}))

\* The first step of the default plan is being executed after a planning
\* call whose arguments could not be parsed.
C20_Witness ==
    /\ planOutcome = "bad_arguments"
    /\ flowPc = "executing"
    /\ step_statuses = <<"in_progress", "not_started", "not_started">>
    /\ current_step_index = 1

\* The changes of one step's status the scheduler makes.
ForwardMoves == {<<"not_started", "in_progress">>, <<"in_progress", "completed">>}

\* C36: under the scheduler a step's status changes only from not_started to
\* in_progress and from in_progress to completed, so a completed step stays
\* completed; and a step becomes in_progress only when every step before it
\* is completed or blocked, so steps are started in increasing index order.
C36_StatusesMoveForward ==
    [][/\ Len(step_statuses') = Len(step_statuses)
       /\ \A i \in 1..Len(step_statuses) :
             /\ step_statuses'[i] # step_statuses[i]
                   => <<step_statuses[i], step_statuses'[i]>> \in ForwardMoves
             /\ (step_statuses[i] # "in_progress" /\ step_statuses'[i] = "in_progress")
                   => \A j \in 1..(i - 1) : step_statuses[j] \in {"completed", "blocked"}]_vars

\* The third step of a plan has been started, the first being blocked and the
\* second having been completed by the scheduler.
C36_Witness ==
    /\ flowPc = "executing"
    /\ current_step_index = 3
    /\ step_statuses = <<"blocked", "completed", "in_progress">>

\* The steps step_intermediate_results holds an entry for.
StepsWithIntermediate == {r[1] : r \in step_intermediate_results}

\* C37: step_intermediate_results holds entries only for steps in progress; a
\* step that is completed, by whatever path, has none.
C37_NoIntermediateForCompleted ==
    \A i \in StepsWithIntermediate :
        /\ i \in 1..Len(step_statuses)
        /\ step_statuses[i] = "in_progress"

(***************************************************************************)
(* SelfEvaluator: evaluate_task and _parse_evaluation_response.            *)
(* Scores are counted in hundredths: 500 is 5.0, 1000 is 10.0.             *)
(***************************************************************************)

\* IssueSeverity
Severities == {"low", "medium", "high", "critical"}

\* data.get("score", 5.0) and the score of the fallback result
DefaultScore == 500

\* validate_score's upper limit, 10
TopScore == 1000

\* The longest issue list of an answer.
MaxIssues == 2

\* The scores an answer may carry, in and out of range, on and off a tenth
\* (725 and 775 are halfway between two tenths).
ScoreInputs == {0 - 100, 0 - 1, 0, 725, 775, 996, TopScore, TopScore + 1, TopScore + 100}

\* The "severity" an issue of the answer may carry: a member of IssueSeverity, a
\* text that is none, no severity at all, or an issue that is not an object.
SeverityInputs == {"low", "critical", "bogus", "missing", "not_a_dict"}

IssueLists == UNION {[1..n -> SeverityInputs] : n \in 0..MaxIssues}

\* The answers of the model: text (a fenced json block, bare JSON, or something
\* json.loads rejects), the top-level JSON value, the "score" entry (a number,
\* absent, or a value that is no number), the issue list, and whether
\* action_needed, action_details and metadata have the declared types.
Responses ==
    {[text |-> "unparsable", top |-> "none", score_kind |-> "missing", score |-> 0,
      issues |-> << >>, fields_valid |-> TRUE]}
    \cup {[text |-> t, top |-> k, score_kind |-> "missing", score |-> 0,
           issues |-> << >>, fields_valid |-> TRUE] :
              t \in {"fenced", "bare"}, k \in {"list", "number"}}
    \cup {[text |-> t, top |-> "dict", score_kind |-> sk, score |-> 0,
           issues |-> is, fields_valid |-> fv] :
              t \in {"fenced", "bare"}, sk \in {"missing", "invalid"},
              is \in IssueLists, fv \in BOOLEAN}
    \cup {[text |-> t, top |-> "dict", score_kind |-> "number", score |-> sc,
           issues |-> is, fields_valid |-> fv] :
              t \in {"fenced", "bare"}, sc \in ScoreInputs,
              is \in IssueLists, fv \in BOOLEAN}

\* round(value, 1): to the nearest tenth, a half to the even tenth.
RoundTenth(v) ==
    LET tenths == v \div 10
        rest == v % 10
    IN  IF rest < 5 THEN tenths * 10
        ELSE IF rest > 5 THEN (tenths + 1) * 10
        ELSE IF tenths % 2 = 0 THEN tenths * 10 ELSE (tenths + 1) * 10

\* A validator that accepts every score.
AcceptAnyScore(v) == TRUE

\* validate_score: not (0 <= value <= 10) raises ValueError.
ScoreInRange(v) == 0 <= v /\ v <= TopScore

\* The except branch of _parse_evaluation_response.
FallbackResult == [score |-> DefaultScore, issues |-> <<"high">>, parse_error |-> TRUE]

\* IssueSeverity(issue_data.get("severity", "medium")), "medium" on ValueError
IssueSeverityOf(sev) == IF sev \in Severities THEN sev ELSE "medium"

\* Whether the try block of _parse_evaluation_response raises: json.loads on a
\* text that is no JSON, .get on a value that is no object, or the validation
\* of EvaluationResult.
ParseRaises(r) ==
    \/ r.text = "unparsable"
    \/ r.top # "dict"
    \/ \E i \in 1..Len(r.issues) : r.issues[i] = "not_a_dict"
    \/ r.score_kind = "invalid"
    \/ ~r.fields_valid
    \/ r.score_kind = "number" /\ ~ScoreInRange(r.score)

\* SelfEvaluator._parse_evaluation_response
ParseEvaluationResponse(r) ==
    IF ParseRaises(r) THEN FallbackResult
    ELSE [score |-> RoundTenth(IF r.score_kind = "number" THEN r.score ELSE DefaultScore),
          issues |-> [i \in 1..Len(r.issues) |-> IssueSeverityOf(r.issues[i])],
          parse_error |-> FALSE]

\* evaluate_task up to the answer of llm.ask.
EvalAsk(r) ==
    /\ evalPc = "idle"
    /\ response' = r
    /\ evalPc' = "asked"
    /\ UNCHANGED <<evaluation, evaluation_history>>

\* evaluate_task from the answer on: parse, append to the history, return.
EvalReturn ==
    /\ evalPc = "asked"
    /\ evaluation' = ParseEvaluationResponse(response)
    /\ evaluation_history' = Append(evaluation_history, evaluation')
    /\ evalPc' = "returned"
    /\ UNCHANGED response

\* llm.ask raises: evaluate_task has no handler, nothing is returned or recorded.
EvalAskRaises ==
    /\ evalPc = "idle"
    /\ evalPc' = "raised"
    /\ UNCHANGED <<response, evaluation, evaluation_history>>

EvalFrame ==
    UNCHANGED <<memVars, matVars, agentVars, flowVars, actVars, browserVars, sessionVars,
                stuckVars, lateVars>>

EvalNext ==
    \/ \E r \in Responses : EvalAsk(r) /\ EvalFrame
    \/ EvalReturn /\ EvalFrame
    \/ EvalAskRaises /\ EvalFrame

EvalStart == Quiescent /\ RestIdle

SpecEval == EvalStart /\ [][EvalNext]_vars

\* C21: on an answer that cannot be parsed evaluate_task does not raise and
\* returns the score 5.0 with exactly one issue, of severity high; every result
\* evaluate_task returns has a score within 0..10, an answer whose score is out
\* of that range yielding the same fallback result.
C21_FallbackAndScoreRange ==
    /\ evalPc = "asked" => ENABLED EvalReturn
    /\ evalPc # "raised" \/ response = NoResponse
    /\ evalPc = "returned" =>
         /\ 0 <= evaluation.score /\ evaluation.score <= TopScore
         /\ evaluation.score % 10 = 0
         /\ evaluation_history = <<evaluation>>
         /\ (\/ response.text = "unparsable"
             \/ response.score_kind = "number" /\ (response.score < 0 \/ response.score > TopScore))
              => /\ evaluation.score = DefaultScore
                 /\ evaluation.issues = <<"high">>

\* An answer with an out-of-range score has been evaluated.
C21_Witness ==
    /\ evalPc = "returned"
    /\ response.text = "fenced"
    /\ response.top = "dict"
    /\ response.score_kind = "number"
    /\ response.score > TopScore
    /\ response.fields_valid
    /\ Len(response.issues) = MaxIssues
    /\ evaluation = FallbackResult

(***************************************************************************)
(* ToolCallAgent: one think and the act that follows it, tool call by tool *)
(* call.                                                                   *)
(***************************************************************************)

\* The longest batch of tool calls the model proposes in one answer.
MaxBatch == 3

\* ToolChoice
ToolChoices == {"none", "auto", "required"}

\* How the execution of an available tool ends: with a result, with
\* json.loads rejecting the arguments, or with the tool raising.
ToolOutcomes == {"ok", "bad_args", "tool_error"}

\* AgentState
AgentStates == {"IDLE", "RUNNING", "FINISHED", "ERROR"}

\* WaitForUserInput.execute raises when the tool holds an agent (_agent): it
\* evaluates AgentState.WAITING_FOR_USER_INPUT, which AgentState does not
\* have. Without an agent it assigns nothing and returns its text.
WaitForUserInputRaises(agent_attached) ==
    agent_attached /\ "WAITING_FOR_USER_INPUT" \notin AgentStates

\* What one proposed tool call can be.
CallKinds ==
    {[name |-> "search", outcome |-> o] : o \in ToolOutcomes}
    \cup {[name |-> "terminate", outcome |-> o] : o \in {"ok", "tool_error"}}
    \cup {[name |-> "missing", outcome |-> "ok"]}
    \cup {[name |-> "wait_for_user_input",
           outcome |-> IF WaitForUserInputRaises(attached) THEN "tool_error" ELSE "ok"] :
              attached \in BOOLEAN}

\* The batches the model may propose; a call's id is its place in the answer.
Batches ==
    UNION {{[i \in 1..n |-> [id |-> i, name |-> k[i].name, outcome |-> k[i].outcome]] :
               k \in [1..n -> CallKinds]} : n \in 0..MaxBatch}

\* The answers of llm.ask_tool: none at all, or content and tool calls.
Answers ==
    {NoAnswer} \cup {[answered |-> TRUE, content |-> c, tool_calls |-> b] :
                        c \in BOOLEAN, b \in Batches}

\* ToolCallAgent._is_special_tool
IsSpecialTool(name) == name = "terminate"

\* An act that executes the calls as proposed.
KeepProposedOrder(batch) == batch

\* optimize_tool_selection's reordering: the first special tool that is not
\* the last call is moved to the end, and the loop stops there.
OptimizeToolSelection(batch) ==
    LET early == {i \in 1..(Len(batch) - 1) : IsSpecialTool(batch[i].name)}
    IN  IF early = {} THEN batch
        ELSE LET i == CHOOSE j \in early : \A k \in early : j <= k
             IN  SubSeq(batch, 1, i - 1) \o SubSeq(batch, i + 1, Len(batch)) \o <<batch[i]>>

\* Think's return value as a rule that looks at the tool calls first.
ThinkResultByCalls(choice, ans) ==
    \/ ans.tool_calls # << >>
    \/ choice = "auto" /\ ans.content

\* The return value of think.
ThinkResult(choice, ans) ==
    IF ~ans.answered THEN FALSE
    ELSE IF choice = "none" THEN ans.content
    ELSE IF choice = "required" /\ ans.tool_calls = << >> THEN TRUE
    ELSE IF choice = "auto" /\ ans.tool_calls = << >> THEN ans.content
    ELSE ans.tool_calls # << >>

\* Message.from_tool_calls / Message.assistant_message
AssistantMsg(id, batch, text) ==
    [Msg(id, "assistant") EXCEPT !.tool_calls = [i \in 1..Len(batch) |-> batch[i].id],
                                 !.content = <<text>>]

\* The messages think adds to the prompted store.
ThinkMemory(choice, ans) ==
    LET id == nextId + 1
    IN  IF ~ans.answered
        THEN AddMessageTo(Prompted, AssistantMsg(id, << >>, "Error encountered while processing"))
        ELSE IF choice = "none"
        THEN IF ans.content
             THEN AddMessageTo(Prompted, AssistantMsg(id, << >>, "content"))
             ELSE Prompted
        ELSE AddMessageTo(Prompted,
                 AssistantMsg(id, ans.tool_calls,
                              IF ans.content THEN "content" ELSE ""))

\* execute_tool: the text it returns for a call; it raises nothing.
ExecuteTool(command) ==
    IF command.name = "missing" THEN "Error: Unknown tool"
    ELSE IF command.outcome = "bad_args" THEN "Error: Error parsing arguments"
    ELSE IF command.outcome = "tool_error" THEN "Error: Tool encountered a problem"
    ELSE "Observed output"

\* Whether execute_tool reaches _handle_special_tool with a special tool.
FinishesExecution(command) ==
    /\ command.name # "missing"
    /\ command.outcome = "ok"
    /\ IsSpecialTool(command.name)

\* The agent state when execute_tool has returned: FINISHED after a special
\* tool; the assignment of WaitForUserInput.execute is never carried out.
StateAfterTool(command, s) ==
    IF FinishesExecution(command) THEN "FINISHED" ELSE s

\* act's search for the assistant message that proposed the call.
OriginInMemory(mem, command) ==
    \E i \in 1..Len(mem.messages) :
        /\ mem.messages[i].role = "assistant"
        /\ \E j \in 1..Len(mem.messages[i].tool_calls) :
               mem.messages[i].tool_calls[j] = command.id

\* A failure recorded with the role of the act's except branch.
RecordAsAssistant(id, command, text) == AssistantMsg(id, << >>, text)

\* Every result recorded as a tool message, whatever memory holds.
RecordAsTool(id, command, text) ==
    [Msg(id, "tool") EXCEPT !.tool_call_id = command.id,
                            !.name = command.name,
                            !.content = <<text>>]

\* The label act puts before the text in the plain assistant message.
ResultLabel == "Result of tool"

\* The message act records for the text execute_tool returned.
RecordResult(id, command, text) ==
    IF OriginInMemory(memory, command)
    THEN [Msg(id, "tool") EXCEPT !.tool_call_id = command.id,
                                 !.name = command.name,
                                 !.content = <<text>>]
    ELSE [AssistantMsg(id, << >>, text) EXCEPT !.content = <<ResultLabel, text>>]

\* ToolCallAgent.think, from the model's answer on, and the test of its
\* return value by step.
ActThink ==
    /\ actPc = "idle"
    /\ \E choice \in ToolChoices, a \in Answers :
          /\ tool_choices' = choice
          /\ answer' = a
          /\ tool_calls' = a.tool_calls
          /\ memory' = ThinkMemory(choice, a)
          /\ should_act' = ThinkResult(choice, a)
    /\ nextId' = nextId + 2
    /\ actPc' = IF should_act' THEN "act" ELSE "done"
    /\ UNCHANGED <<invoked, completed, recorded, tool_usage_history, state, chatPc>>

\* act without tool calls: ValueError under required, else the last content.
ActNothing ==
    /\ actPc = "act"
    /\ tool_calls = << >>
    /\ actPc' = IF tool_choices = "required" THEN "raised" ELSE "returned"
    /\ UNCHANGED <<tool_choices, answer, tool_calls, memory, nextId, should_act,
                   invoked, completed, recorded, tool_usage_history, state, chatPc>>

\* act with tool calls: optimize_tool_selection, then the loop begins.
ActOptimize ==
    /\ actPc = "act"
    /\ tool_calls # << >>
    /\ tool_calls' = OptimizeToolSelection(tool_calls)
    /\ tool_usage_history' =
           [n \in ToolNames |->
               LET uses == Cardinality({i \in 1..Len(tool_calls) : tool_calls[i].name = n})
               IN  tool_usage_history[n] \o [i \in 1..uses |-> "pending"]]
    /\ actPc' = "loop"
    /\ UNCHANGED <<tool_choices, answer, memory, nextId, should_act,
                   invoked, completed, recorded, state, chatPc>>

\* The loop reaches its next command and awaits execute_tool.
ActInvoke ==
    /\ actPc = "loop"
    /\ Len(invoked) < Len(tool_calls)
    /\ invoked' = Append(invoked, tool_calls[Len(invoked) + 1].id)
    /\ actPc' = "invoking"
    /\ UNCHANGED <<tool_choices, answer, tool_calls, memory, nextId, should_act,
                   completed, recorded, tool_usage_history, state, chatPc>>

\* execute_tool returns: the text is recorded in memory, the usage history is
\* updated, and a special tool that ran sets the state to FINISHED.
ActComplete ==
    /\ actPc = "invoking"
    /\ LET command == tool_calls[Len(invoked)]
           msg == RecordResult(nextId, command, ExecuteTool(command))
           name == command.name
           last == Len(tool_usage_history[name])
       IN  /\ memory' = AddMessageTo(memory, msg)
           /\ recorded' = Append(recorded, msg)
           /\ completed' = Append(completed, command.id)
           /\ state' = StateAfterTool(command, state)
           /\ tool_usage_history' =
                  [tool_usage_history EXCEPT ![name] = [@ EXCEPT ![last] = "success"]]
    /\ nextId' = nextId + 1
    /\ actPc' = "loop"
    /\ UNCHANGED <<tool_choices, answer, tool_calls, should_act, invoked, chatPc>>

\* The loop is through: act returns the joined results.
ActReturn ==
    /\ actPc = "loop"
    /\ Len(invoked) = Len(tool_calls)
    /\ actPc' = "returned"
    /\ UNCHANGED <<tool_choices, answer, tool_calls, memory, nextId, should_act,
                   invoked, completed, recorded, tool_usage_history, state, chatPc>>

\* The test of the chat handler, agent.state == AgentState.WAITING_FOR_USER_INPUT,
\* raises AttributeError when AgentState has no such member.
ChatTestRaises == "WAITING_FOR_USER_INPUT" \notin AgentStates

\* The web layer's chat handler for a session whose agent has made its step:
\* it fails on its test of the state, or resumes a waiting agent (state RUNNING,
\* then step), or starts a new run.
ChatRequest ==
    /\ actPc \in {"done", "returned", "raised"}
    /\ chatPc = "none"
    /\ chatPc' = IF ChatTestRaises THEN "failed"
                 ELSE IF state = "WAITING_FOR_USER_INPUT" THEN "resumed"
                 ELSE "started"
    /\ state' = IF ~ChatTestRaises /\ state = "WAITING_FOR_USER_INPUT"
                THEN "RUNNING" ELSE state
    /\ UNCHANGED <<tool_choices, answer, tool_calls, memory, nextId, should_act,
                   invoked, completed, recorded, tool_usage_history, actPc>>

ActFrame ==
    UNCHANGED <<capDropped, hist, compressCalls, appends, matVars,
                current_step, continuation_mode, previous_state, runPc,
                call, calls, iterations, terminal, runIterations, report, cutShort,
                lastThink, flowVars, evalVars, browserVars, sessionVars, stuckVars,
                lateVars>>

ActNext ==
    \/ ActThink /\ ActFrame
    \/ ActNothing /\ ActFrame
    \/ ActOptimize /\ ActFrame
    \/ ActInvoke /\ ActFrame
    \/ ActComplete /\ ActFrame
    \/ ActReturn /\ ActFrame
    \/ ChatRequest /\ ActFrame

\* An agent inside run's loop (state RUNNING), about to think.
ActStart ==
    /\ memory \in {EmptyMemory, PriorConversation}
    /\ nextId = Len(memory.messages) + 1
    /\ capDropped = {}
    /\ hist = [op |-> "init", pct |-> compression_ratio, onCompacted |-> FALSE,
               priorPct |-> compression_ratio,
               prior |-> 0, systemInPrefix |-> 0, compacted |-> FALSE,
               changed |-> FALSE]
    /\ compressCalls = 0
    /\ appends = 0
    /\ MatIdle
    /\ state = "RUNNING"
    /\ current_step = 1
    /\ previous_state = "IDLE"
    /\ runPc = "loop"
    /\ call = [outcome |-> "none", from |-> "IDLE"]
    /\ calls = 0
    /\ iterations = 0
    /\ terminal = FALSE
    /\ runIterations = 0
    /\ report = {}
    /\ cutShort = FALSE
    /\ lastThink = [token_fault |-> FALSE, asks |-> 0, compactions |-> 0,
                    retry_failed |-> FALSE]
    /\ continuation_mode = TRUE
    /\ FlowIdle
    /\ RestIdle

SpecAct == ActStart /\ [][ActNext]_vars

\* Ids of the calls the model proposed, in the order of its answer.
ProposedIds == [i \in 1..Len(answer.tool_calls) |-> answer.tool_calls[i].id]

\* Places of the answer that hold a special tool and are not the last place.
EarlySpecial ==
    {i \in 1..(Len(answer.tool_calls) - 1) : answer.tool_calls[i].name = "terminate"}

\* invoked and completed describe calls executed one at a time.
OneAtATime ==
    /\ Len(invoked) - Len(completed) \in {0, 1}
    /\ completed = SubSeq(invoked, 1, Len(completed))
    /\ Len(invoked) - Len(completed) = 1 <=> actPc = "invoking"
    /\ \A i, j \in 1..Len(invoked) : invoked[i] = invoked[j] => i = j

\* C22 as stated: the calls are invoked one at a time, in exactly the order the
\* model proposed them.
C22_ProposedOrder ==
    /\ OneAtATime
    /\ invoked = SubSeq(ProposedIds, 1, Len(invoked))

\* C22 (amended): the calls of one act are invoked one at a time, each once, in
\* the order the model proposed them, except that the first call of a special
\* tool that is not the last of the batch is invoked after all the others.
C22_OrderButSpecialLast ==
    /\ OneAtATime
    /\ actPc = "returned" /\ should_act => Len(invoked) = Len(answer.tool_calls)
    /\ \A p, q \in 1..Len(invoked) :
          (p < q /\ invoked[p] > invoked[q]) =>
              /\ invoked[q] \in EarlySpecial
              /\ \A k \in EarlySpecial : invoked[q] <= k
              /\ q = Len(answer.tool_calls)
    /\ \A p \in 1..Len(invoked) :
          (invoked[p] \in EarlySpecial /\ \A k \in EarlySpecial : invoked[p] <= k)
              => p = Len(answer.tool_calls)

\* A batch of three whose first call is the special tool has been executed:
\* the special tool ran last.
C22_Witness ==
    /\ actPc = "returned"
    /\ Len(answer.tool_calls) = 3
    /\ answer.tool_calls[1].name = "terminate"
    /\ invoked = <<2, 3, 1>>
    /\ completed = invoked

\* The last call act has completed is the wait-for-input tool.
WaitToolCompleted ==
    /\ completed # << >>
    /\ answer.tool_calls[completed[Len(completed)]].name = "wait_for_user_input"

\* C24: the wait-for-input tool, invoked while the agent is Running, moves the
\* agent state to WaitingForInput; a chat request with new input then moves
\* WaitingForInput to Running and leaves current_step as it is.
C24_WaitToolThenResume ==
    /\ WaitToolCompleted /\ chatPc = "none" => state = "WAITING_FOR_USER_INPUT"
    /\ WaitToolCompleted /\ chatPc # "none" =>
          chatPc = "resumed" /\ state = "RUNNING" /\ current_step = 1

\* The call with this id, as proposed, is one whose execution fails.
FailingCall(id) ==
    \/ answer.tool_calls[id].name = "missing"
    \/ answer.tool_calls[id].outcome \in {"bad_args", "tool_error"}

ErrorTexts == {"Error: Unknown tool", "Error: Error parsing arguments",
               "Error: Tool encountered a problem"}

\* C23 as stated: every failing invocation of a batch is recorded in memory as
\* an assistant message.
C23_FailureAsAssistantMessage ==
    \A i \in 1..Len(completed) :
        FailingCall(completed[i]) => recorded[i].role = "assistant"

\* C23 (amended): a failing invocation (unknown tool, malformed arguments, tool
\* failure) does not raise out of act and every later call of the batch is still
\* invoked; the failure is recorded in memory as the text of an error, in a tool
\* message answering the call when the assistant message that proposed the call
\* is in memory, and in an assistant message otherwise (tool choice none).
C23_FailureRecordedBatchGoesOn ==
    /\ actPc = "raised" => answer.tool_calls = << >>
    /\ actPc = "invoking" => ENABLED ActComplete
    /\ (actPc = "loop" /\ Len(invoked) < Len(tool_calls)) => ENABLED ActInvoke
    /\ (actPc = "returned" /\ should_act) => Len(completed) = Len(answer.tool_calls)
    /\ Len(recorded) = Len(completed)
    /\ \A i \in 1..Len(completed) :
          /\ FailingCall(completed[i]) <=> recorded[i].content[Len(recorded[i].content)] \in ErrorTexts
          /\ \E k \in 1..Len(memory.messages) : memory.messages[k] = recorded[i]
          /\ IF tool_choices = "none"
             THEN recorded[i].role = "assistant"
             ELSE /\ recorded[i].role = "tool"
                  /\ recorded[i].tool_call_id = completed[i]

\* A batch whose first call failed has been executed to its end under tool
\* choice auto: the failure is a tool message and the calls after it ran.
C23_Witness ==
    /\ actPc = "returned"
    /\ tool_choices = "auto"
    /\ Len(answer.tool_calls) = 3
    /\ answer.tool_calls[1].outcome = "tool_error"
    /\ answer.tool_calls[2].name = "missing"
    /\ completed = <<1, 2, 3>>
    /\ recorded[1].role = "tool"
    /\ recorded[1].content = <<"Error: Tool encountered a problem">>

\* C29 as stated: think returns true exactly when the model proposed a tool
\* call, or the tool choice is auto and the model produced content.
C29_TrueOnCallsOrAutoContent ==
    actPc # "idle" =>
        (should_act <=> \/ answer.tool_calls # << >>
                        \/ tool_choices = "auto" /\ answer.content)

\* C29 (amended): think returns true exactly when the model answered and:
\* under auto it proposed a tool call or produced content; under required in
\* every case (an act without tool calls then raises); under none it produced
\* content, whether or not it proposed tool calls.
C29_ThinkReturn ==
    /\ actPc # "idle" =>
         (should_act <=>
             /\ answer.answered
             /\ \/ tool_choices = "auto" /\ (answer.tool_calls # << >> \/ answer.content)
                \/ tool_choices = "required"
                \/ tool_choices = "none" /\ answer.content)
    /\ actPc = "raised" => tool_choices = "required" /\ answer.tool_calls = << >>
    /\ actPc = "done" <=> (actPc # "idle" /\ ~should_act)

\* Under required the model proposed no tool call, think returned true and act
\* raised.
C29_Witness ==
    /\ actPc = "raised"
    /\ should_act
    /\ tool_choices = "required"
    /\ answer.answered
    /\ answer.tool_calls = << >>

\* C31: act appends a tool message for a call only when, at the moment of the
\* append, memory holds an assistant message whose tool calls include the id of
\* that call; when no such message is in memory the result is appended as a
\* plain assistant message (no tool calls, no tool_call_id) carrying the text
\* execute_tool returned.
C31_ToolMessageOnlyWithOrigin ==
    [][(actPc = "invoking" /\ actPc' = "loop") =>
          LET command == tool_calls[Len(invoked)]
              msg == recorded'[Len(recorded')]
              origin == \E k \in 1..Len(memory.messages) :
                            /\ memory.messages[k].role = "assistant"
                            /\ command.id \in Range(memory.messages[k].tool_calls)
          IN  /\ Len(recorded') = Len(recorded) + 1
              /\ msg = memory'.messages[Len(memory'.messages)]
              /\ \A k \in 1..Len(memory.messages) : memory.messages[k] # msg
              /\ msg.content[Len(msg.content)] = ExecuteTool(command)
              /\ msg.role = "tool" => origin /\ msg.tool_call_id = command.id
              /\ ~origin => /\ msg.role = "assistant"
                            /\ msg.tool_calls = << >>
                            /\ msg.tool_call_id = NoId]_vars

\* Under tool choice none the model proposed a call all the same; act ran it
\* and, finding no assistant message with that call, recorded a plain assistant
\* message with the observed text.
C31_Witness ==
    /\ actPc = "returned"
    /\ tool_choices = "none"
    /\ Len(recorded) = 2
    /\ \A i \in 1..2 : recorded[i].role = "assistant" /\ recorded[i].tool_call_id = NoId
    /\ recorded[1].content = <<ResultLabel, "Observed output">>
    /\ \A k \in 1..Len(memory.messages) : memory.messages[k].tool_calls = << >>

(***************************************************************************)
(* BrowserUseTool: the locks of execute, get_current_state and cleanup.    *)
(***************************************************************************)

\* One action of each branch of _get_lock_for_action, one that falls to its
\* default, and the two operations with a lock of their own.
BrowserActions == {"go_to_url", "click_element", "switch_tab", "extract_content",
                   "unknown_action", "get_current_state", "cleanup"}

\* The lock an operation works under: _get_lock_for_action for execute, the
\* state lock for get_current_state, the cleanup lock for cleanup.
LockForAction(action) ==
    CASE action = "go_to_url" -> "navigation"
      [] action = "click_element" -> "interaction"
      [] action = "switch_tab" -> "tab"
      [] action = "extract_content" -> "extraction"
      [] action = "get_current_state" -> "state"
      [] action = "cleanup" -> "cleanup"
      [] OTHER -> "navigation"

\* execute begins with _ensure_browser_initialized; the other two do not.
NeedsInit(action) == action \notin {"get_current_state", "cleanup"}

\* How an operation can leave its with-block.
ExitPaths == {"returned", "error_result", "raised", "cancelled"}

\* Locks that are handed back on every exit but a cancellation.
ReleaseUnlessCancelled(held, o, path) ==
    IF path = "cancelled" THEN held
    ELSE [l \in LockNames |-> IF held[l] = o THEN NoOp ELSE held[l]]

\* async with lock: __aexit__ releases the lock whatever ends the block.
ReleaseOnExit(held, o, path) ==
    [l \in LockNames |-> IF held[l] = o THEN NoOp ELSE held[l]]

\* The lock operation o holds, if any.
HeldBy(o) ==
    IF \E l \in LockNames : locks[l] = o
    THEN CHOOSE l \in LockNames : locks[l] = o
    ELSE "none"

\* An operation is called, the caller's previous one having ended.
OpStart(o, action) ==
    /\ opPc[o] \in {"idle", "done"}
    /\ opAction' = [opAction EXCEPT ![o] = action]
    /\ opPc' = [opPc EXCEPT ![o] = IF NeedsInit(action) THEN "init_waiting"
                                   ELSE "lock_waiting"]
    /\ opExit' = [opExit EXCEPT ![o] = "none"]
    /\ opHeld' = [opHeld EXCEPT ![o] = "none"]
    /\ UNCHANGED locks

\* _ensure_browser_initialized enters async with self.locks["browser_init"].
OpAcquireInit(o) ==
    /\ opPc[o] = "init_waiting"
    /\ locks["browser_init"] = NoOp
    /\ locks' = [locks EXCEPT !["browser_init"] = o]
    /\ opPc' = [opPc EXCEPT ![o] = "initializing"]
    /\ UNCHANGED <<opAction, opExit, opHeld>>

\* _ensure_browser_initialized leaves its block: with the context, or with the
\* exception of the browser start, which execute does not catch.
OpInitDone(o, ok) ==
    /\ opPc[o] = "initializing"
    /\ locks' = ReleaseOnExit(locks, o, IF ok THEN "returned" ELSE "raised")
    /\ opPc' = [opPc EXCEPT ![o] = IF ok THEN "lock_waiting" ELSE "done"]
    /\ opExit' = [opExit EXCEPT ![o] = IF ok THEN "none" ELSE "raised"]
    /\ opHeld' = [opHeld EXCEPT ![o] = IF ok THEN "none" ELSE "browser_init"]
    /\ UNCHANGED opAction

\* The operation enters async with on the lock of its action.
OpAcquire(o) ==
    /\ opPc[o] = "lock_waiting"
    /\ locks[LockForAction(opAction[o])] = NoOp
    /\ locks' = [locks EXCEPT ![LockForAction(opAction[o])] = o]
    /\ opPc' = [opPc EXCEPT ![o] = "acting"]
    /\ UNCHANGED <<opAction, opExit, opHeld>>

\* The block ends with a result, or with an exception that its except clause
\* turns into an error result (a logged error in cleanup).
OpFinish(o, path) ==
    /\ opPc[o] = "acting"
    /\ locks' = ReleaseOnExit(locks, o, path)
    /\ opPc' = [opPc EXCEPT ![o] = "done"]
    /\ opExit' = [opExit EXCEPT ![o] = path]
    /\ opHeld' = [opHeld EXCEPT ![o] = HeldBy(o)]
    /\ UNCHANGED opAction

\* task.cancel(): CancelledError is raised at the await the operation is
\* suspended in; no except Exception clause catches it.
OpCancel(o) ==
    /\ opPc[o] \in {"init_waiting", "initializing", "lock_waiting", "acting"}
    /\ locks' = ReleaseOnExit(locks, o, "cancelled")
    /\ opPc' = [opPc EXCEPT ![o] = "done"]
    /\ opExit' = [opExit EXCEPT ![o] = "cancelled"]
    /\ opHeld' = [opHeld EXCEPT ![o] = HeldBy(o)]
    /\ UNCHANGED opAction

BrowserFrame ==
    UNCHANGED <<memVars, matVars, agentVars, flowVars, evalVars, actVars, sessionVars,
                stuckVars, lateVars>>

BrowserNext ==
    \/ \E o \in BrowserOps, action \in BrowserActions : OpStart(o, action) /\ BrowserFrame
    \/ \E o \in BrowserOps : OpAcquireInit(o) /\ BrowserFrame
    \/ \E o \in BrowserOps, ok \in BOOLEAN : OpInitDone(o, ok) /\ BrowserFrame
    \/ \E o \in BrowserOps : OpAcquire(o) /\ BrowserFrame
    \/ \E o \in BrowserOps, path \in {"returned", "error_result"} :
          OpFinish(o, path) /\ BrowserFrame
    \/ \E o \in BrowserOps : OpCancel(o) /\ BrowserFrame

BrowserStart == Quiescent /\ RestIdle

SpecBrowser == BrowserStart /\ [][BrowserNext]_vars

\* Operation o is inside the with-block of lock l.
InsideBlock(o, l) ==
    \/ l = "browser_init" /\ opPc[o] = "initializing"
    \/ /\ l # "browser_init"
       /\ opPc[o] = "acting"
       /\ \/ l = "navigation" /\ opAction[o] \in {"go_to_url", "unknown_action"}
          \/ l = "interaction" /\ opAction[o] = "click_element"
          \/ l = "tab" /\ opAction[o] = "switch_tab"
          \/ l = "extraction" /\ opAction[o] = "extract_content"
          \/ l = "state" /\ opAction[o] = "get_current_state"
          \/ l = "cleanup" /\ opAction[o] = "cleanup"

\* C26: a lock of the browser tool is held only by an operation that is inside
\* the block it was acquired for; an operation that has ended - by return, error
\* result, exception or cancellation - holds none, so an operation waiting for
\* a lock whose holder has ended can acquire it.
C26_LocksReleasedOnEveryExit ==
    /\ \A l \in LockNames : locks[l] # NoOp => InsideBlock(locks[l], l)
    /\ \A o \in BrowserOps :
          opPc[o] \in {"idle", "done"} => \A l \in LockNames : locks[l] # o
    /\ \A o \in BrowserOps :
          (/\ opPc[o] = "init_waiting"
           /\ \A p \in BrowserOps \ {o} : opPc[p] \in {"idle", "done"})
              => ENABLED OpAcquireInit(o)
    /\ \A o \in BrowserOps :
          (/\ opPc[o] = "lock_waiting"
           /\ \A p \in BrowserOps \ {o} : opPc[p] \in {"idle", "done"})
              => ENABLED OpAcquire(o)

\* An operation was cancelled while it held the navigation lock, and another
\* operation of the same category holds that lock now.
C26_Witness ==
    \E o, p \in BrowserOps :
        /\ opExit[o] = "cancelled"
        /\ opHeld[o] = "navigation"
        /\ opPc[o] = "done"
        /\ locks["navigation"] = p
        /\ opPc[p] = "acting"

\* The action categories of execute, each with a lock of its own.
CategoryLocks == {"navigation", "interaction", "extraction", "tab"}

\* Operation o is executing an action of a category under that category's lock.
CategoryActing(o) ==
    /\ opPc[o] = "acting"
    /\ LockForAction(opAction[o]) \in CategoryLocks
    /\ locks[LockForAction(opAction[o])] = o

\* Operation o is inside cleanup's block, where the context and the browser
\* are closed.
CleanupActing(o) == opPc[o] = "acting" /\ opAction[o] = "cleanup"

\* C33: cleanup is never inside its block, closing the browser context, while
\* an action of a category is executing under its category lock, and no two
\* actions of one category are inside their block at the same time.
C33_NoRaceOnHandle ==
    \A o, p \in BrowserOps :
        o # p =>
            /\ ~(CleanupActing(o) /\ CategoryActing(p))
            /\ ~(/\ CategoryActing(o) /\ CategoryActing(p)
                 /\ LockForAction(opAction[o]) = LockForAction(opAction[p]))

(***************************************************************************)
(* Sessions: one Manus per session id in the web layer's registry, and the *)
(* process-wide SANDBOX_CLIENT that BaseAgent.run cleans up.               *)
(***************************************************************************)

\* The most messages a session's memory is followed to.
MaxSessionMessages == 2

\* chat: the session's agent starts a run (state_context enters RUNNING, the
\* request is put into the agent's own memory).
SessRun(s) ==
    /\ sessions[s].state = "IDLE"
    /\ sessions[s].messages < MaxSessionMessages
    /\ sessions' = [sessions EXCEPT ![s].state = "RUNNING",
                                    ![s].messages = @ + 1]
    /\ actor' = s
    /\ operation' = "run"
    /\ UNCHANGED sandbox

\* Manus.run creates the session's planning flow and its plan.
SessPlan(s) ==
    /\ sessions[s].state = "RUNNING"
    /\ sessions[s].plan = "none"
    /\ sessions' = [sessions EXCEPT ![s].plan = "active"]
    /\ actor' = s
    /\ operation' = "plan"
    /\ UNCHANGED sandbox

\* A step of the run uses the agent's own browser tool.
SessUseBrowser(s) ==
    /\ sessions[s].state = "RUNNING"
    /\ sessions[s].browser = "closed"
    /\ sessions' = [sessions EXCEPT ![s].browser = "open"]
    /\ actor' = s
    /\ operation' = "browser"
    /\ UNCHANGED sandbox

\* A step of the run has a tool create the session's resources in the sandbox
\* that SANDBOX_CLIENT manages.
SessUseSandbox(s) ==
    /\ sessions[s].state = "RUNNING"
    /\ s \notin sandbox
    /\ sandbox' = sandbox \cup {s}
    /\ actor' = s
    /\ operation' = "sandbox"
    /\ UNCHANGED sessions

\* SANDBOX_CLIENT.cleanup(): the one client of the process is cleaned up,
\* whoever created what it holds.
SandboxCleanup(held, s) == {}

\* The run returns: state_context puts the state back, BaseAgent.run calls
\* SANDBOX_CLIENT.cleanup(), ToolCallAgent.run's finally cleans the agent's tools.
SessFinish(s) ==
    /\ sessions[s].state = "RUNNING"
    /\ sessions' = [sessions EXCEPT ![s].state = "IDLE", ![s].browser = "closed"]
    /\ sandbox' = SandboxCleanup(sandbox, s)
    /\ actor' = s
    /\ operation' = "finish"

\* The run raises: state_context puts the state back and the exception passes
\* the call of SANDBOX_CLIENT.cleanup(); the finally still cleans the tools.
SessFail(s) ==
    /\ sessions[s].state = "RUNNING"
    /\ sessions' = [sessions EXCEPT ![s].state = "IDLE", ![s].browser = "closed"]
    /\ actor' = s
    /\ operation' = "fail"
    /\ UNCHANGED sandbox

\* terminate_session: agent.cleanup(), then the state is set to FINISHED.
SessTerminate(s) ==
    /\ sessions[s].state # "FINISHED"
    /\ sessions' = [sessions EXCEPT ![s].state = "FINISHED", ![s].browser = "closed"]
    /\ actor' = s
    /\ operation' = "terminate"
    /\ UNCHANGED sandbox

SessFrame ==
    UNCHANGED <<memVars, matVars, agentVars, flowVars, evalVars, actVars, browserVars,
                stuckVars, lateVars>>

SessNext ==
    \/ \E s \in Sessions : SessRun(s) /\ SessFrame
    \/ \E s \in Sessions : SessPlan(s) /\ SessFrame
    \/ \E s \in Sessions : SessUseBrowser(s) /\ SessFrame
    \/ \E s \in Sessions : SessUseSandbox(s) /\ SessFrame
    \/ \E s \in Sessions : SessFinish(s) /\ SessFrame
    \/ \E s \in Sessions : SessFail(s) /\ SessFrame
    \/ \E s \in Sessions : SessTerminate(s) /\ SessFrame

SessStart == Quiescent /\ RestIdle

SpecSessions == SessStart /\ [][SessNext]_vars

\* C25: no operation of one session changes another session's agent state,
\* memory, plan, tools or sandbox resources.
C25_SessionsIsolated ==
    [][\A s \in Sessions :
          actor' # s => /\ sessions'[s] = sessions[s]
                        /\ (s \in sandbox' <=> s \in sandbox)]_vars

\* A pass begins to execute the step it selected.
PassExecutes == flowPc = "loop" /\ flowPc' = "executing"

\* The pass over a step at its ceiling ends with a result that carries the
\* continuation marker.
CeilingPassIncomplete ==
    /\ flowPc = "executing"
    /\ flowPc' = "check"
    /\ step_result' = ContinuationNotice
    /\ step_execution_count[current_step_index] = max_executions_per_step

\* Every executed pass over a step is counted, the count is never taken back,
\* and no pass is executed beyond the ceiling; a step selected beyond the
\* ceiling is marked completed without being executed.
PassesBounded ==
    /\ PassExecutes =>
          /\ step_execution_count'[current_step_index'] =
                step_execution_count[current_step_index'] + 1
          /\ step_execution_count'[current_step_index'] <= max_executions_per_step
    /\ \A i \in 1..Len(step_statuses) :
          (flowPc # "start" /\ flowPc' # "start") =>
              /\ step_execution_count'[i] >= step_execution_count[i]
              /\ (step_execution_count'[i] > max_executions_per_step
                  /\ step_execution_count[i] <= max_executions_per_step)
                    => /\ flowPc' = "loop"
                       /\ step_statuses'[i] = "completed"

\* C27 as stated: no step is executed in more than max_executions_per_step
\* passes, a step selected beyond the ceiling is completed unexecuted, and a
\* step whose result on the ceiling pass still carries the continuation marker
\* is marked completed.
C27_CeilingPassCompletes ==
    [][/\ PassesBounded
       /\ CeilingPassIncomplete => step_statuses'[current_step_index] = "completed"]_vars

\* C27 (amended): no step is executed in more than max_executions_per_step
\* passes and a step selected beyond the ceiling is completed unexecuted; a
\* step whose result on the ceiling pass still carries the continuation marker
\* is marked completed by that pass when the executor has execute_planned_step,
\* and otherwise stays in progress with its result stored, to be completed
\* unexecuted by its next selection.
C27_BoundedPassesPerStep ==
    [][/\ PassesBounded
       /\ CeilingPassIncomplete =>
             IF has_planned_step
             THEN step_statuses'[current_step_index] = "completed"
             ELSE /\ step_statuses'[current_step_index] = "in_progress"
                  /\ <<current_step_index, max_executions_per_step>>
                        \in step_intermediate_results']_vars

\* A step was completed by its ceiling pass although its result carried the
\* continuation marker.
C27_Witness ==
    /\ has_planned_step
    /\ \E i \in 1..Len(step_statuses) :
          /\ step_execution_count[i] = max_executions_per_step
          /\ step_statuses[i] = "completed"
          /\ <<i, "at ceiling">> \in forcedSteps

\* C28: a run that the terminal tool ends reports neither the termination
\* notice nor the continuation note of the max-steps handling, also when the
\* tool ends the run on its max_steps-th iteration.
C28_TerminalRunNotMarkedUnfinished ==
    (runPc = "returned" /\ terminal /\ ~cutShort) => report = {}

(***************************************************************************)
(* BaseAgent.is_stuck and handle_stuck_state, called by run after a step.  *)
(***************************************************************************)

\* BaseAgent.duplicate_threshold
duplicate_threshold == 2

\* The longest memory the check is followed on.
MaxStuckMessages == 4

\* The contents a message of the step may have: one of two texts, or none.
StuckContents == {<<"X">>, <<"Y">>, << >>}

\* is_stuck: the last message of memory, whatever its role, is compared with
\* the assistant messages before it.
IsStuck(messages) ==
    LET n == Len(messages)
        duplicate_count ==
            Cardinality({i \in 1..(n - 1) : /\ messages[i].role = "assistant"
                                            /\ messages[i].content = messages[n].content})
    IN  IF n < 2 THEN FALSE
        ELSE IF messages[n].content = << >> THEN FALSE
        ELSE duplicate_count >= duplicate_threshold

\* The step puts a message into memory (think's assistant message, act's tool
\* message, a user message).
StuckAdd(role, content) ==
    /\ stuckPc = "acting"
    /\ Len(memory.messages) < MaxStuckMessages
    /\ memory' = RawAppend(memory, [Msg(nextId, role) EXCEPT !.content = content])
    /\ nextId' = nextId + 1
    /\ UNCHANGED <<next_step_prompt, stuckPc>>

\* run after the step: if self.is_stuck(): self.handle_stuck_state(), which
\* puts the directive in front of next_step_prompt.
StuckCheck ==
    /\ stuckPc = "acting"
    /\ next_step_prompt' = IF IsStuck(memory.messages)
                           THEN <<"change strategy">> \o next_step_prompt
                           ELSE next_step_prompt
    /\ stuckPc' = "checked"
    /\ UNCHANGED <<memory, nextId>>

StuckFrame ==
    UNCHANGED <<capDropped, hist, compressCalls, appends, matVars, agentVars, flowVars,
                evalVars, actVars, browserVars, sessionVars, lateVars>>

StuckNext ==
    \/ \E role \in {"assistant", "tool", "user"}, content \in StuckContents :
          StuckAdd(role, content) /\ StuckFrame
    \/ StuckCheck /\ StuckFrame

StuckStart == Quiescent /\ RestIdle

SpecStuck == StuckStart /\ [][StuckNext]_vars

\* Places of memory that hold an assistant message.
AssistantPlaces == {i \in 1..Len(memory.messages) : memory.messages[i].role = "assistant"}

\* The most recent assistant message has the content of at least
\* duplicate_threshold assistant messages before it.
LastAssistantRepeated ==
    /\ AssistantPlaces # {}
    /\ LET m == CHOOSE i \in AssistantPlaces : \A j \in AssistantPlaces : j <= i
       IN  Cardinality({i \in AssistantPlaces :
                           /\ i < m
                           /\ memory.messages[i].content = memory.messages[m].content})
              >= duplicate_threshold

\* C30: after the step the change-strategy directive is put into the next-step
\* prompt exactly when the most recent assistant message has the content of at
\* least duplicate_threshold earlier assistant messages, whatever the role of
\* the last message of memory.
C30_DirectiveOnRepeatedAssistant ==
    stuckPc = "checked" =>
        (next_step_prompt[1] = "change strategy" <=> LastAssistantRepeated)

(***************************************************************************)
(* Manus.execute_planned_step around BaseAgent.run: the step counter of    *)
(* each pass over a plan step and the runs made inside the pass.           *)
(***************************************************************************)
MaxPasses == 2     \* calls of execute_planned_step in one behaviour

\* A counter carried over from the pass before.
CarriedStepCounter(step) == step

\* self.current_step = 0 at the start of execute_planned_step.
PlannedStepCounter(step) == 0

\* execute_planned_step up to its first run: the counter is reset and a long
\* memory is compacted.
PlannedStepBegin ==
    /\ runPc \in IF planPasses = 0 THEN {"none"} ELSE {"returned", "raised"}
    /\ planPasses < MaxPasses
    /\ planPasses' = planPasses + 1
    /\ stepRuns' = 0
    /\ current_step' = PlannedStepCounter(current_step)
    /\ memory' = CompressIfLong(memory, FALSE)
    /\ runPc' = "none"
    /\ UNCHANGED <<state, continuation_mode, previous_state, call, calls,
                   iterations, terminal, runIterations, report, cutShort, lastThink>>
    /\ UNCHANGED <<nextId, capDropped, hist, compressCalls, appends>>

\* A run of the pass: the first execution, the improvement run or a retry,
\* each super().run(prompt) made when the run before it has returned.
PlannedRun ==
    /\ planPasses > 0
    /\ runPc \in {"none", "returned"}
    /\ Run(TRUE)
    /\ stepRuns' = stepRuns + 1
    /\ UNCHANGED planPasses

PassFrame ==
    UNCHANGED <<matVars, flowVars, evalVars, actVars, browserVars, sessionVars,
                stuckVars, toolVars, finalizeVars>>

PassNext ==
    \/ PlannedStepBegin /\ PassFrame
    \/ PlannedRun /\ PassFrame
    \/ \E outcome \in {"act", "no_action", "terminal", "token_limit",
                       "token_retry", "fault"} :
          Step(outcome) /\ UNCHANGED passVars /\ PassFrame
    \/ Unwind /\ UNCHANGED passVars /\ PassFrame
    \/ LoopExit /\ UNCHANGED passVars /\ PassFrame

PassStart == Quiescent /\ RestIdle

SpecPass == PassStart /\ [][PassNext]_vars

\* C32: execute_planned_step starts with current_step at 0, so the first run of
\* every pass over a plan step counts its iterations from 0 and may make
\* max_steps of them whatever the passes before consumed; no run makes more
\* than max_steps iterations.
C32_IndependentStepBudget ==
    /\ (planPasses > 0 /\ stepRuns = 0) => current_step = 0
    /\ (stepRuns = 1 /\ runPc = "loop") =>
          /\ current_step = runIterations
          /\ (state = "RUNNING" /\ runIterations < max_steps) => LoopContinues
    /\ runIterations <= max_steps
    /\ current_step <= max_steps

C32_Witness ==
    /\ planPasses = 2
    /\ iterations > runIterations
    /\ stepRuns = 1
    /\ runPc = "loop"
    /\ runIterations = max_steps
    /\ current_step = max_steps

(***************************************************************************)
(* PlanningFlow.execute under faults: of the plan request, of the step     *)
(* selection, of the executor's run and of its evaluation.                 *)
(***************************************************************************)

\* A fault of the selection that reaches execute's handler.
FlowSelectRaises ==
    /\ flowPc = "loop"
    /\ flowPc' = "returned"
    /\ flowResult' = "failed"
    /\ UNCHANGED <<has_planned_step, step_statuses, step_execution_count,
                   step_intermediate_results, current_step_index, flowReport,
                   forcedSteps, step_prompt, stepTerminal, planOutcome, step_result,
                   gateVars>>
    /\ UNCHANGED state

\* _get_current_step_info fails while it reads the plan: its except clause
\* returns (None, None), which execute takes for a plan with no step left; it
\* finalizes and returns its result.
FlowSelectFaults ==
    /\ flowPc = "loop"
    /\ current_step_index' = NoStep
    /\ flowPc' = "returned"
    /\ flowResult' = "plan"
    /\ UNCHANGED <<has_planned_step, step_statuses, step_execution_count,
                   step_intermediate_results, flowReport, forcedSteps, step_prompt,
                   stepTerminal, planOutcome, step_result, gateVars>>
    /\ UNCHANGED state

\* The model call of _create_initial_plan raises.
FlowCreateFaults == \E n \in 0..GatePlanSteps : FlowCreatePlan("model_fails", n)

\* Manus or an executor without execute_planned_step, sub-task evaluation on
\* or off, retries as configured, the optimizer in use (its default).
FaultStart ==
    /\ MemInit
    /\ MatIdle
    /\ RestIdle
    /\ AgentIdle
    /\ FlowFresh
    /\ has_planned_step \in BOOLEAN
    /\ subtask_evaluation_enabled \in BOOLEAN
    /\ subtask_max_retries \in 0..MaxRetries
    /\ enable_auto_improvement = TRUE

FaultNext ==
    \/ \E n \in 0..GatePlanSteps : FlowCreatePlan("planning_call", n) /\ FlowRest
    \/ FlowCreateFaults /\ FlowRest
    \/ FlowSelectFaults /\ FlowRest
    \/ FlowFinalize /\ FlowRest
    \/ FlowBeginStep /\ FlowRest
    \/ FlowForceComplete /\ FlowRest
    \/ \E is_incomplete, terminated \in BOOLEAN :
          FlowStepReturns(is_incomplete, terminated) /\ FlowRest
    \/ FlowStepRaises /\ FlowRest
    \/ FlowCheckTerminate /\ FlowRest
    \/ \E marker, terminated \in BOOLEAN, score \in Scores :
          GateFirstRun(marker, terminated, score) /\ FlowRest
    \/ \E plan_made, marker, terminated \in BOOLEAN, score \in Scores :
          GateImprove(plan_made, marker, terminated, score) /\ FlowRest
    \/ \E plan_made, marker, terminated \in BOOLEAN, score \in Scores :
          GateRetry(plan_made, marker, terminated, score) /\ FlowRest
    \/ GateRaises /\ FlowRest
    \/ GateReturn /\ FlowRest

SpecFault == FaultStart /\ [][FaultNext]_vars

\* execute returns the text of its handler, Execution failed; the loop has
\* stopped and the statuses are those before the step.
FailsExecution ==
    /\ flowPc' = "returned"
    /\ flowResult' = "failed"
    /\ step_statuses' = step_statuses

\* C35 as stated: every fault - of the plan creation, of the step selection, of
\* a step's execution or evaluation - makes execute return Execution failed,
\* with the loop stopped and the statuses as they were.
C35_EveryFaultFailsExecution ==
    [][(FlowCreateFaults \/ FlowSelectFaults \/ FlowStepRaises \/ GateRaises)
          => FailsExecution]_vars

\* C35 (amended): execute never raises.  A fault of the plan request, and a
\* fault of the run or the evaluation inside execute_planned_step, make it
\* return Execution failed with the loop stopped and the statuses unchanged,
\* the faulting step in progress.  A fault of the step selection is taken for
\* a plan with no step left: the plan is finalized and the ordinary result
\* returned.  A fault of the run of an executor without execute_planned_step
\* becomes the result of the step, which stays in progress while the loop goes
\* on.
C35_FaultsByPlace ==
    [][/\ flowPc' \in {"start", "loop", "executing", "check", "returned"}
       /\ FlowCreateFaults => FailsExecution
       /\ ((FlowStepRaises /\ has_planned_step) \/ GateRaises) =>
             /\ FailsExecution
             /\ step_statuses[current_step_index] = "in_progress"
       /\ FlowSelectFaults =>
             /\ flowPc' = "returned"
             /\ flowResult' = "plan"
             /\ step_statuses' = step_statuses
       /\ (FlowStepRaises /\ ~has_planned_step) =>
             /\ flowPc' = "check"
             /\ flowResult' = "none"
             /\ step_result' = "step_error"
             /\ step_statuses' = step_statuses
             /\ step_statuses[current_step_index] = "in_progress"]_vars

\* The evaluation of the second step's run raised under Manus: execute has
\* returned Execution failed and that step is still in progress.
C35_Witness ==
    /\ flowPc = "returned"
    /\ flowResult = "failed"
    /\ has_planned_step
    /\ subtask_evaluation_enabled
    /\ step_statuses = <<"completed", "in_progress">>
    /\ current_step_index = 2

(***************************************************************************)
(* Calls that find the agent busy: Manus.run and execute_planned_step      *)
(* around ToolCallAgent.run, whose finally clause cleans the tools up.     *)
(***************************************************************************)

\* A cleanup that leaves the tools as they are.
KeepTools(open) == open

\* Manus.cleanup, called by the finally clause of ToolCallAgent.run:
\* browser_context_helper.cleanup_browser() closes the browser.
CleanupTools(open) == FALSE

\* One iteration of the active run; a tool it executes is counted by
\* Manus.act and may start the browser.
ToolStep(outcome, uses_browser) ==
    /\ Step(outcome)
    /\ IF outcome \in {"act", "terminal", "token_retry"}
       THEN /\ tool_usage_stats' = tool_usage_stats + 1
            /\ browser_open' = (browser_open \/ uses_browser)
       ELSE UNCHANGED toolVars

\* The active run ends by a fault: cleanup in the finally clause of
\* ToolCallAgent.run.
ToolUnwind ==
    /\ Unwind
    /\ browser_open' = CleanupTools(browser_open)
    /\ UNCHANGED tool_usage_stats

\* The active run returns: cleanup in the finally clause of ToolCallAgent.run.
ToolLoopExit ==
    /\ LoopExit
    /\ browser_open' = CleanupTools(browser_open)
    /\ UNCHANGED tool_usage_stats

\* Manus.run called by a second task during a plan step
\* (is_executing_planned_task): it empties tool_usage_stats, BaseAgent.run
\* raises RuntimeError on its precondition, and the finally clause of
\* ToolCallAgent.run cleans the tools up.
RejectedRun ==
    /\ runPc = "loop"
    /\ ~RunPrecondition(state)
    /\ Run(TRUE)
    /\ tool_usage_stats' = 0
    /\ browser_open' = CleanupTools(browser_open)
    /\ UNCHANGED passVars

\* execute_planned_step called by a second task during a run: it resets
\* current_step and compacts a long memory before its run is rejected, and the
\* finally clause of ToolCallAgent.run cleans the tools up.
RejectedPlannedStep ==
    /\ runPc = "loop"
    /\ ~RunPrecondition(state)
    /\ calls < MaxCalls
    /\ calls' = calls + 1
    /\ call' = [outcome |-> "RuntimeError", from |-> state]
    /\ current_step' = PlannedStepCounter(current_step)
    /\ memory' = CompressIfLong(memory, FALSE)
    /\ browser_open' = CleanupTools(browser_open)
    /\ UNCHANGED <<state, continuation_mode, previous_state, runPc, iterations,
                   terminal, runIterations, report, cutShort, lastThink>>
    /\ UNCHANGED <<nextId, capDropped, hist, compressCalls, appends>>
    /\ UNCHANGED <<passVars, tool_usage_stats>>

RejectFrame ==
    UNCHANGED <<matVars, flowVars, evalVars, actVars, browserVars, sessionVars,
                stuckVars, finalizeVars>>

RejectNext ==
    \/ PlannedStepBegin /\ UNCHANGED toolVars /\ RejectFrame
    \/ PlannedRun /\ UNCHANGED toolVars /\ RejectFrame
    \/ \E outcome \in {"act", "no_action", "terminal", "fault"}, uses_browser \in BOOLEAN :
          ToolStep(outcome, uses_browser) /\ UNCHANGED passVars /\ RejectFrame
    \/ ToolUnwind /\ UNCHANGED passVars /\ RejectFrame
    \/ ToolLoopExit /\ UNCHANGED passVars /\ RejectFrame
    \/ RejectedRun /\ RejectFrame
    \/ RejectedPlannedStep /\ RejectFrame

RejectStart == Quiescent /\ RestIdle

SpecReject == RejectStart /\ [][RejectNext]_vars

\* C38: a run or execute_planned_step call that is rejected because the agent
\* is not Idle leaves state, memory, current_step and the tool-usage
\* bookkeeping of the run in progress unchanged and cleans up no tool
\* resource of it.
C38_RejectedCallHasNoEffect ==
    [][(calls' = calls + 1 /\ call'.outcome = "RuntimeError") =>
          UNCHANGED <<state, memory, current_step, tool_usage_stats, browser_open>>]_vars

(***************************************************************************)
(* PlanningFlow._finalize_plan and the agent.run it falls back on.  The    *)
(* executor of a planning flow that has execute_planned_step is Manus,     *)
(* whose run, called outside a planned step, creates and executes a        *)
(* planning flow of its own; the loop of that flow ends in a               *)
(* _finalize_plan of its own.                                              *)
(***************************************************************************)
MaxFinalizeDepth == 4     \* activations of _finalize_plan followed, nested
MaxSummarySteps == 3      \* steps of a plan created for the summary prompt

\* One activation of _finalize_plan: where it stands, and the steps left of
\* the plan its agent.run is executing.
FinalizeFrame(pc, left) == [pc |-> pc, left |-> left]

FinalizeAt(pc) ==
    /\ finalizeStack # << >>
    /\ finalizeStack[Len(finalizeStack)].pc = pc

FinalizeMoves(pc, left) ==
    finalizeStack' = [finalizeStack EXCEPT ![Len(finalizeStack)] = FinalizeFrame(pc, left)]

\* return of the innermost _finalize_plan: to the caller of the flow, or to
\* the execute of the plan made for the summary prompt, which appends the
\* text to its result and returns to Manus.run.
FinalizeReturns(text) ==
    IF Len(finalizeStack) = 1
    THEN /\ finalizeStack' = << >>
         /\ final_message' = text
    ELSE /\ finalizeStack' =
               [SubSeq(finalizeStack, 1, Len(finalizeStack) - 1)
                   EXCEPT ![Len(finalizeStack) - 1] = FinalizeFrame("flow_returned", 0)]
         /\ UNCHANGED final_message

\* _finalize_plan up to the summarisation call: without collected step
\* results it returns the text that nothing was found.
FinalizeBegin ==
    /\ finalizeStack = << >>
    /\ final_message = "none"
    /\ \E collected_contents \in BOOLEAN :
          IF collected_contents
          THEN /\ finalizeStack' = <<FinalizeFrame("ask", 0)>>
               /\ UNCHANGED final_message
          ELSE /\ final_message' = "nothing_found"
               /\ UNCHANGED finalizeStack
    /\ UNCHANGED <<plansCreated, summaryRun>>

\* self.llm.ask: the summary is returned, or the handler turns to the agent.
FinalizeAsk ==
    /\ FinalizeAt("ask")
    /\ \E answered \in BOOLEAN :
          IF answered
          THEN FinalizeReturns("summary")
          ELSE FinalizeMoves("agent_run", 0) /\ UNCHANGED final_message
    /\ UNCHANGED <<plansCreated, summaryRun>>

\* agent.run(summary_prompt).  No planned step is executing when the flow
\* finalizes, so Manus.run goes on to create a planning flow and execute it
\* on the prompt; another agent enters the step loop of BaseAgent.run.
FinalizeDelegate ==
    /\ FinalizeAt("agent_run")
    /\ IF has_planned_step
       THEN FinalizeMoves("create_plan", 0) /\ UNCHANGED summaryRun
       ELSE FinalizeMoves("loop", 0) /\ summaryRun' = 0
    /\ UNCHANGED <<plansCreated, final_message>>

\* The step loop of BaseAgent.run on the summary prompt: an iteration, the
\* end of the run, or an exception that reaches _finalize_plan's handler.
FinalizeRunStep ==
    /\ FinalizeAt("loop")
    /\ \E outcome \in {"continues", "finished", "raises"} :
          CASE outcome = "continues" ->
                  /\ summaryRun < max_steps
                  /\ summaryRun' = summaryRun + 1
                  /\ UNCHANGED <<finalizeStack, final_message>>
            [] outcome = "finished" ->
                  /\ FinalizeReturns("agent_summary")
                  /\ UNCHANGED summaryRun
            [] outcome = "raises" ->
                  /\ FinalizeReturns("finalize_error")
                  /\ UNCHANGED summaryRun
    /\ UNCHANGED plansCreated

\* planning_flow.execute(summary_prompt) of Manus.run: _create_initial_plan
\* creates a plan, or the failure ends execute with its error text.
FinalizeCreatePlan ==
    /\ FinalizeAt("create_plan")
    /\ \E outcome \in {"planning_call", "model_fails"} :
          IF outcome = "planning_call"
          THEN /\ plansCreated' = plansCreated + 1
               /\ \E n \in 1..MaxSummarySteps : FinalizeMoves("steps", n)
          ELSE /\ FinalizeMoves("flow_returned", 0)
               /\ UNCHANGED plansCreated
    /\ UNCHANGED <<summaryRun, final_message>>

\* The current step of the plan made for the summary prompt: an iteration of
\* the step-loop run execute_planned_step gives it, or the end of that run
\* and of the step.
FinalizePlanStep ==
    /\ FinalizeAt("steps")
    /\ finalizeStack[Len(finalizeStack)].left > 0
    /\ \E outcome \in {"continues", "finished"} :
          IF outcome = "continues"
          THEN /\ summaryRun < max_steps
               /\ summaryRun' = summaryRun + 1
               /\ UNCHANGED finalizeStack
          ELSE /\ summaryRun > 0
               /\ summaryRun' = 0
               /\ FinalizeMoves("steps", finalizeStack[Len(finalizeStack)].left - 1)
    /\ UNCHANGED <<plansCreated, final_message>>

\* No step is left of that plan: its execute calls _finalize_plan.
FinalizeNested ==
    /\ FinalizeAt("steps")
    /\ finalizeStack[Len(finalizeStack)].left = 0
    /\ Len(finalizeStack) < MaxFinalizeDepth
    /\ finalizeStack' = Append(finalizeStack, FinalizeFrame("ask", 0))
    /\ UNCHANGED <<plansCreated, summaryRun, final_message>>

\* execute has returned to Manus.run, which evaluates the result with a model
\* call of its own and returns, or raises into _finalize_plan's handler.
FinalizeFlowReturns ==
    /\ FinalizeAt("flow_returned")
    /\ \E evaluated \in BOOLEAN :
          IF evaluated
          THEN FinalizeReturns("agent_summary")
          ELSE FinalizeReturns("finalize_error")
    /\ UNCHANGED <<plansCreated, summaryRun>>

FinalizeRest ==
    UNCHANGED <<memVars, matVars, agentVars, flowVars, evalVars, actVars,
                browserVars, sessionVars, stuckVars, passVars, toolVars>>

FinalizeNext ==
    \/ FinalizeBegin /\ FinalizeRest
    \/ FinalizeAsk /\ FinalizeRest
    \/ FinalizeDelegate /\ FinalizeRest
    \/ FinalizeRunStep /\ FinalizeRest
    \/ FinalizeCreatePlan /\ FinalizeRest
    \/ FinalizePlanStep /\ FinalizeRest
    \/ FinalizeNested /\ FinalizeRest
    \/ FinalizeFlowReturns /\ FinalizeRest

FinalizeStart ==
    /\ MemInit
    /\ MatIdle
    /\ RestIdle
    /\ AgentIdle
    /\ FlowFresh
    /\ GateOff
    /\ has_planned_step \in BOOLEAN

SpecFinalize == FinalizeStart /\ [][FinalizeNext]_vars

\* C40 (as claimed): when the direct summarisation call fails, _finalize_plan
\* hands the prompt to the execution agent once, as a single step-loop run of
\* at most max_steps iterations that neither creates nor executes a plan,
\* and it returns the summary, the agent's answer or the fixed error text.
C40_FinalizeDelegatesOneRun ==
    /\ plansCreated = 0
    /\ Len(finalizeStack) <= 1
    /\ \A k \in 1..Len(finalizeStack) :
          finalizeStack[k].pc \in {"ask", "agent_run", "loop"}
    /\ summaryRun <= max_steps
    /\ final_message \in {"none", "nothing_found", "summary", "agent_summary",
                          "finalize_error"}

====
